---- MODULE Spec2Model ----
(***************************************************************************)
(* Model of the scheduling and persistence core of open_crypto:            *)
(*   - DatabaseHandler (model/database/db_handler.py): the relational      *)
(*     store with its persist_* and get_* operations;                      *)
(*   - Scheduler (model/scheduling/scheduler.py): validation of the job    *)
(*     list and the request fan-out of one round.                          *)
(* Python's None is modelled by the string "None"; a row id is the row's   *)
(* position in its table, and 0 stands for "no row" (.first() gave None).  *)
(***************************************************************************)
EXTENDS Integers, Sequences, FiniteSets, TLC

VARIABLES
    db,         \* the database: exchanges, currencies, pairs, tickers, historic_rates
    last,       \* the last DatabaseHandler call: its name, arguments, result and outcome
    job_list,   \* Scheduler.job_list: the list of the jobs (their ids)
    jobs,       \* the Job objects: request_name, job_params, exchanges_with_pairs
    validated,  \* Scheduler.validated
    proc,       \* the process: "idle", "round" (in start), "slept" (in start, its
                \* sleep over), "exited" (sys.exit), "crashed" (start raised)
    tasks,      \* the run(job) coroutines start() gathered, in the order created
    hist        \* what happened so far: validations begun and ended, rounds, requests

schedVars == <<job_list, jobs, validated, proc, tasks, hist>>

vars == <<db, last, job_list, jobs, validated, proc, tasks, hist>>

None == "None"

(***************************************************************************)
(* Bounds of the model.                                                    *)
(***************************************************************************)
MaxLen == 2          \* longest argument list of one persist_* call
MaxTickers == 2      \* most rows of the ticker table
MaxRounds == 2       \* most rounds (calls of start) of one Scheduler
MaxJobs == 2         \* longest job list validate_job is given
MaxTime == 3         \* latest reading of the clock (datetime.utcnow)

(***************************************************************************)
(* str.upper() on the names the model uses.                                *)
(***************************************************************************)
Upper(s) ==
    CASE s = "kraken" -> "KRAKEN"
      [] s = "btc"    -> "BTC"
      [] s = "usd"    -> "USD"
      [] s = "eth"    -> "ETH"
      [] OTHER        -> s

\* Python truthiness of a name: None and the empty string are falsy.
Truthy(s) == s # None /\ s # ""

\* A list argument that may be None: NoneList is None, Some(l) is the list l.
NoneList == <<>>

Some(l) == <<l>>

IsNone(o) == Len(o) = 0

Get(o) == o[1]

SeqsUpTo(S, n) == UNION {[1..k -> S] : k \in 0..n}

Range(seq) == {seq[i] : i \in 1..Len(seq)}

(***************************************************************************)
(* tables.py: what a row stores, and the constraints the tables declare.   *)
(***************************************************************************)
\* Exchange.name and Currency.name are stored upper-cased.
StoredName(name) == Upper(name)

\* UNIQUE(name): an INSERT of a name that is already in the table fails.
NameTaken(tbl, name) == \E i \in 1..Len(tbl) : tbl[i] = name

\* UNIQUE(exchange_id, first_id, second_id)
TripleTaken(tbl, row) == \E i \in 1..Len(tbl) : tbl[i] = row

EmptyDb ==
    [exchanges |-> <<>>, currencies |-> <<>>, pairs |-> <<>>,
     tickers |-> <<>>, historic_rates |-> <<>>]

(***************************************************************************)
(* Queries of one row by name: query(...).filter(name == x.upper()).first()*)
(***************************************************************************)
FirstIndex(tbl, x) ==
    IF \E i \in 1..Len(tbl) : tbl[i] = x
    THEN CHOOSE i \in 1..Len(tbl) : tbl[i] = x /\ \A j \in 1..(i - 1) : tbl[j] # x
    ELSE 0

\* get_exchange_id that compares the name as given, not upper-cased.
get_exchange_id_as_given(d, exchange_name) == FirstIndex(d.exchanges, exchange_name)

get_exchange_id(d, exchange_name) == FirstIndex(d.exchanges, Upper(exchange_name))

get_currency_id(d, currency_name) == FirstIndex(d.currencies, Upper(currency_name))

\* query(ExchangeCurrencyPair).filter(exchange_id == e, first_id == f, second_id == s).first();
\* an id of None compares as IS NULL and matches no row.
PairQuery(d, e, f, s) ==
    IF e = 0 \/ f = 0 \/ s = 0 THEN 0
    ELSE FirstIndex(d.pairs, [exchange_id |-> e, first_id |-> f, second_id |-> s])

(***************************************************************************)
(* persist_exchange_currency_pairs.  The session autoflushes the pending   *)
(* ExchangeCurrencyPair (with the new Exchange and Currency objects it     *)
(* references) before the next query and at commit.  A pending object is   *)
(* <<"row", id>> for a row found, <<"new", name>> for an object created.   *)
(***************************************************************************)
NoPending == <<>>

ObjId(tbl, obj) == IF obj[1] = "row" THEN obj[2] ELSE FirstIndex(tbl, StoredName(obj[2]))

\* session.flush(): INSERT the new exchange, the new currencies, then the pair.
\* err: an INSERT violated a uniqueness constraint (IntegrityError).
Flush(s) ==
    IF s.err \/ s.pend = NoPending THEN s
    ELSE
      LET p  == s.pend[1]
          d0 == s.d
          exBad == p.ex[1] = "new" /\ NameTaken(d0.exchanges, StoredName(p.ex[2]))
          exT == IF p.ex[1] = "new" THEN Append(d0.exchanges, StoredName(p.ex[2]))
                 ELSE d0.exchanges
          c1Bad == p.first[1] = "new" /\ NameTaken(d0.currencies, StoredName(p.first[2]))
          c1T == IF p.first[1] = "new" THEN Append(d0.currencies, StoredName(p.first[2]))
                 ELSE d0.currencies
          c2Bad == p.second[1] = "new" /\ NameTaken(c1T, StoredName(p.second[2]))
          c2T == IF p.second[1] = "new" THEN Append(c1T, StoredName(p.second[2]))
                 ELSE c1T
          row == [exchange_id |-> ObjId(exT, p.ex),
                  first_id    |-> IF p.first[1] = "row" THEN p.first[2] ELSE Len(c1T),
                  second_id   |-> IF p.second[1] = "row" THEN p.second[2] ELSE Len(c2T)]
          rowBad == TripleTaken(d0.pairs, row)
      IN  IF exBad \/ c1Bad \/ c2Bad \/ rowBad
          THEN [s EXCEPT !.err = TRUE]
          ELSE [d |-> [d0 EXCEPT !.exchanges = exT, !.currencies = c2T,
                                 !.pairs = Append(d0.pairs, row)],
                pend |-> NoPending, err |-> FALSE]

\* PairStep without the query for the existing pair (lines 393-398).
PairStepNoPairQuery(s, cp) ==
    IF s.err THEN s
    ELSE IF cp[1] = None \/ cp[2] = None \/ cp[3] = None THEN s
    ELSE
      LET f == Flush(s)
      IN  IF f.err THEN f
          ELSE
            LET e  == get_exchange_id(f.d, cp[1])
                c1 == get_currency_id(f.d, cp[2])
                c2 == get_currency_id(f.d, cp[3])
                exObj == IF e # 0 THEN <<"row", e>> ELSE <<"new", cp[1]>>
                o1 == IF c1 # 0 THEN <<"row", c1>> ELSE <<"new", cp[2]>>
                o2 == IF c2 # 0 THEN <<"row", c2>> ELSE <<"new", cp[3]>>
            IN  [f EXCEPT !.pend = <<[ex |-> exObj, first |-> o1, second |-> o2]>>]

\* One iteration of the loop over currency_pairs (lines 371-401).
PairStep(s, cp) ==
    IF s.err THEN s
    ELSE IF cp[1] = None \/ cp[2] = None \/ cp[3] = None THEN s
    ELSE
      LET f == Flush(s)
      IN  IF f.err THEN f
          ELSE
            LET e  == get_exchange_id(f.d, cp[1])
                c1 == get_currency_id(f.d, cp[2])
                c2 == get_currency_id(f.d, cp[3])
                exObj == IF e # 0 THEN <<"row", e>> ELSE <<"new", cp[1]>>
                o1 == IF c1 # 0 THEN <<"row", c1>> ELSE <<"new", cp[2]>>
                o2 == IF c2 # 0 THEN <<"row", c2>> ELSE <<"new", cp[3]>>
            IN  IF PairQuery(f.d, e, c1, c2) # 0 THEN f
                ELSE [f EXCEPT !.pend = <<[ex |-> exObj, first |-> o1, second |-> o2]>>]

RECURSIVE PairLoop(_, _, _)
\* for cp in currency_pairs (from position i on)
PairLoop(s, currency_pairs, i) ==
    IF i > Len(currency_pairs) THEN s
    ELSE PairLoop(PairStep(s, currency_pairs[i]), currency_pairs, i + 1)

\* persist_exchange_currency_pairs that keeps what was flushed before an exception.
persist_pairs_without_rollback(d, currency_pairs) ==
    IF IsNone(currency_pairs) THEN d
    ELSE Flush(PairLoop([d |-> d, pend |-> NoPending, err |-> FALSE],
                        Get(currency_pairs), 1)).d

\* persist_exchange_currency_pairs that replaces the pair table by the pairs given.
persist_pairs_replacing(d, currency_pairs) ==
    IF IsNone(currency_pairs) THEN d
    ELSE Flush(PairLoop([d |-> [d EXCEPT !.pairs = <<>>], pend |-> NoPending, err |-> FALSE],
                        Get(currency_pairs), 1)).d

\* The whole call: the database it leaves.  An exception rolls the session back
\* and is swallowed; None as the argument does nothing.
persist_exchange_currency_pairs(d, currency_pairs) ==
    IF IsNone(currency_pairs) THEN d
    ELSE
      LET s == Flush(PairLoop([d |-> d, pend |-> NoPending, err |-> FALSE],
                              Get(currency_pairs), 1))
      IN  IF s.err THEN d ELSE s.d

\* persist_exchange: insert the exchange unless its upper-cased name is stored.
persist_exchange(d, exchange_name) ==
    IF get_exchange_id(d, exchange_name) = 0
    THEN [d EXCEPT !.exchanges = Append(@, StoredName(exchange_name))]
    ELSE d

(***************************************************************************)
(* The selector queries.  A result is the list of the ids of the           *)
(* ExchangeCurrencyPair rows returned, in the order the code returns them. *)
(***************************************************************************)
RECURSIVE Ascending(_)
\* The ids of a set of rows as the list .all() returns, in id order.
Ascending(ids) ==
    IF ids = {} THEN <<>>
    ELSE LET m == CHOOSE x \in ids : \A y \in ids : x <= y
         IN  <<m>> \o Ascending(ids \ {m})

get_all_currency_pairs_from_exchange(d, exchange_name) ==
    LET exchange_id == get_exchange_id(d, exchange_name)
    IN  IF exchange_id # 0
        THEN Ascending({i \in 1..Len(d.pairs) : d.pairs[i].exchange_id = exchange_id})
        ELSE <<>>

\* query(ExchangeCurrencyPair).filter(exchange_id == e, first_id == f).all();
\* an id of None compares as IS NULL and matches no row.
PairsWithFirst(d, exchange_id, first_id) ==
    Ascending({i \in 1..Len(d.pairs) : /\ exchange_id # 0 /\ first_id # 0
                                       /\ d.pairs[i].exchange_id = exchange_id
                                       /\ d.pairs[i].first_id = first_id})

PairsWithSecond(d, exchange_id, second_id) ==
    Ascending({i \in 1..Len(d.pairs) : /\ exchange_id # 0 /\ second_id # 0
                                       /\ d.pairs[i].exchange_id = exchange_id
                                       /\ d.pairs[i].second_id = second_id})

RECURSIVE FirstCurrencyLoop(_, _, _, _)
\* for currency_name in currency_names (lines 192-201, from position i on)
FirstCurrencyLoop(d, exchange_id, currency_names, i) ==
    IF i > Len(currency_names) THEN <<>>
    ELSE LET currency_name == currency_names[i]
             found == IF currency_name # None /\ Truthy(currency_name)
                      THEN PairsWithFirst(d, exchange_id, get_currency_id(d, currency_name))
                      ELSE <<>>
         IN  found \o FirstCurrencyLoop(d, exchange_id, currency_names, i + 1)

get_currency_pairs_with_first_currency(d, exchange_name, currency_names) ==
    IF exchange_name # None /\ Truthy(exchange_name) /\ ~IsNone(currency_names)
    THEN FirstCurrencyLoop(d, get_exchange_id(d, exchange_name), Get(currency_names), 1)
    ELSE <<>>

RECURSIVE SecondCurrencyLoop(_, _, _, _)
\* for currency_name in currency_names (lines 227-236, from position i on)
SecondCurrencyLoop(d, exchange_id, currency_names, i) ==
    IF i > Len(currency_names) THEN <<>>
    ELSE LET currency_name == currency_names[i]
             found == IF Truthy(currency_name)
                      THEN PairsWithSecond(d, exchange_id, get_currency_id(d, currency_name))
                      ELSE <<>>
         IN  found \o SecondCurrencyLoop(d, exchange_id, currency_names, i + 1)

get_currency_pairs_with_second_currency(d, exchange_name, currency_names) ==
    IF Truthy(exchange_name) /\ ~IsNone(currency_names)
    THEN SecondCurrencyLoop(d, get_exchange_id(d, exchange_name), Get(currency_names), 1)
    ELSE <<>>

RECURSIVE CurrencyPairLoop(_, _, _, _)
\* for currency_pair in currency_pairs (lines 262-275, from position i on)
CurrencyPairLoop(d, exchange_id, currency_pairs, i) ==
    IF i > Len(currency_pairs) THEN <<>>
    ELSE LET first_currency == currency_pairs[i].first
             second_currency == currency_pairs[i].second
             found == IF Truthy(first_currency) /\ Truthy(second_currency)
                      THEN PairQuery(d, exchange_id, get_currency_id(d, first_currency),
                                     get_currency_id(d, second_currency))
                      ELSE 0
         IN  (IF found # 0 THEN <<found>> ELSE <<>>)
             \o CurrencyPairLoop(d, exchange_id, currency_pairs, i + 1)

get_currency_pairs(d, exchange_name, currency_pairs) ==
    IF Truthy(exchange_name) /\ ~IsNone(currency_pairs)
    THEN CurrencyPairLoop(d, get_exchange_id(d, exchange_name), Get(currency_pairs), 1)
    ELSE <<>>

\* DropRepeated that keeps every element.
DropRepeatedKeepsAll(found, i) == IF i > Len(found) THEN <<>> ELSE found

RECURSIVE DropRepeated(_, _)
\* lines 308-311: the first occurrence of every id (the elements up to position i).
DropRepeated(found, i) ==
    IF i = 0 THEN <<>>
    ELSE LET result == DropRepeated(found, i - 1)
         IN  IF \E k \in 1..Len(result) : result[k] = found[i]
             THEN result ELSE Append(result, found[i])

get_exchanges_currency_pairs(d, exchange_name, currency_pairs, first_currencies, second_currencies) ==
    LET found == get_currency_pairs(d, exchange_name, currency_pairs)
                 \o get_currency_pairs_with_first_currency(d, exchange_name, first_currencies)
                 \o get_currency_pairs_with_second_currency(d, exchange_name, second_currencies)
    IN  DropRepeated(found, Len(found))

(***************************************************************************)
(* persist_tickers and get_exchange_currency_pair.  A ticker is the tuple  *)
(* of the docstring (lines 120-129); Python's ticker[k] is ticker[k + 1].  *)
(***************************************************************************)
\* get_exchange_currency_pair: the pair is persisted in a session of its own
\* (committed at once), then read in the caller's session.
\* d: the database afterwards, cp: the id of the pair found (0: None).
\* lines 451-458: the pair is read in the caller's session.
QueryPair(d, exchange_name, first_currency_name, second_currency_name) ==
    [d |-> d,
     cp |-> PairQuery(d, get_exchange_id(d, exchange_name),
                      get_currency_id(d, first_currency_name),
                      get_currency_id(d, second_currency_name))]

\* get_exchange_currency_pair without the call of line 449: it only reads.
get_exchange_currency_pair_read_only(d, exchange_name, first_currency_name, second_currency_name) ==
    IF exchange_name = None \/ first_currency_name = None \/ second_currency_name = None
    THEN [d |-> d, cp |-> 0]
    ELSE QueryPair(d, exchange_name, first_currency_name, second_currency_name)

get_exchange_currency_pair(d, exchange_name, first_currency_name, second_currency_name) ==
    IF exchange_name = None \/ first_currency_name = None \/ second_currency_name = None
    THEN [d |-> d, cp |-> 0]
    ELSE QueryPair(persist_exchange_currency_pairs(
                       d, Some(<< <<exchange_name, first_currency_name, second_currency_name>> >>)),
                   exchange_name, first_currency_name, second_currency_name)

\* TickerRow with best_ask and best_bid taken from each other's field.
TickerRowAskBidSwapped(exchange_pair_id, ticker) ==
    [exchange_pair_id |-> exchange_pair_id,
     start_time |-> ticker[2], response_time |-> ticker[3],
     last_price |-> ticker[6], last_trade |-> ticker[7],
     best_ask |-> ticker[9], best_bid |-> ticker[8], daily_volume |-> ticker[10]]

TickerRow(exchange_pair_id, ticker) ==
    [exchange_pair_id |-> exchange_pair_id,
     start_time |-> ticker[2], response_time |-> ticker[3],
     last_price |-> ticker[6], last_trade |-> ticker[7],
     best_ask |-> ticker[8], best_bid |-> ticker[9], daily_volume |-> ticker[10]]

\* AddTicker without the test of line 137.
AddTickerOfAnyPair(s, queried_currency_pairs, ticker, r) ==
    IF r.cp # 0
    THEN IF Len(ticker) < 10
         THEN [d |-> r.d, added |-> s.added, err |-> TRUE]
         ELSE [d |-> r.d, added |-> Append(s.added, TickerRow(r.cp, ticker)), err |-> FALSE]
    ELSE [d |-> r.d, added |-> s.added, err |-> FALSE]

\* lines 137-149: the Ticker of the pair r.cp found is added to the session
\* if the pair is one of the queried ones.
\* added: the Ticker objects added to the session, not yet committed.
\* err: a tuple shorter than ten fields made Ticker(...) raise IndexError.
AddTicker(s, queried_currency_pairs, ticker, r) ==
    IF r.cp # 0 /\ \E k \in 1..Len(queried_currency_pairs) : queried_currency_pairs[k] = r.cp
    THEN IF Len(ticker) < 10
         THEN [d |-> r.d, added |-> s.added, err |-> TRUE]
         ELSE [d |-> r.d, added |-> Append(s.added, TickerRow(r.cp, ticker)), err |-> FALSE]
    ELSE [d |-> r.d, added |-> s.added, err |-> FALSE]

\* One iteration of the loop over tickers (lines 133-149).  An exception ends
\* the loop; a tuple shorter than five fields raises IndexError at ticker[4].
TickerStep(s, queried_currency_pairs, ticker) ==
    IF s.err THEN s
    ELSE IF Len(ticker) < 5 THEN [s EXCEPT !.err = TRUE]
    ELSE AddTicker(s, queried_currency_pairs, ticker,
                   get_exchange_currency_pair(s.d, ticker[1], ticker[4], ticker[5]))

RECURSIVE TickerLoop(_, _, _, _)
\* for ticker in tickers (from position i on)
TickerLoop(s, queried_currency_pairs, tickers, i) ==
    IF i > Len(tickers) THEN s
    ELSE TickerLoop(TickerStep(s, queried_currency_pairs, tickers[i]),
                    queried_currency_pairs, tickers, i + 1)

\* The whole call.  queried_currency_pairs is the list of the ids of the
\* ExchangeCurrencyPair objects given.  The print of line 151 reads the loop
\* variable: with no ticker it is unbound, the NameError leaves the session
\* scope, which rolls back and raises.  So does an exception of the loop: the
\* Ticker objects added are gone, what the nested calls committed stays.
\* TickerScopeEnds that commits what was added before an exception.
TickerScopeEndsKeepsAdded(s, tickers) ==
    IF Len(tickers) = 0
    THEN [d |-> s.d, out |-> "raised"]
    ELSE [d |-> [s.d EXCEPT !.tickers = @ \o s.added],
          out |-> IF s.err THEN "raised" ELSE "returned"]

TickerScopeEnds(s, tickers) ==
    IF Len(tickers) = 0 \/ s.err
    THEN [d |-> s.d, out |-> "raised"]
    ELSE [d |-> [s.d EXCEPT !.tickers = @ \o s.added], out |-> "returned"]

\* persist_tickers whose nested calls work in the transaction of the call: a
\* failure leaves the whole store as it was.
persist_tickers_one_transaction(d, queried_currency_pairs, tickers) ==
    LET r == TickerScopeEnds(TickerLoop([d |-> d, added |-> <<>>, err |-> FALSE],
                                        queried_currency_pairs, tickers, 1),
                             tickers)
    IN  IF r.out = "raised" THEN [d |-> d, out |-> "raised"] ELSE r

persist_tickers(d, queried_currency_pairs, tickers) ==
    TickerScopeEnds(TickerLoop([d |-> d, added |-> <<>>, err |-> FALSE],
                               queried_currency_pairs, tickers, 1),
                    tickers)

(***************************************************************************)
(* persist_historic_rates.  A rate is the tuple (exchange_pair_id,         *)
(* timestamp, open, high, low, close, volume); a shorter tuple makes       *)
(* historic_rate[1] raise IndexError.                                      *)
(***************************************************************************)
RateRow(historic_rate) ==
    [exchange_pair_id |-> historic_rate[1], timestamp |-> historic_rate[2],
     open |-> historic_rate[3], high |-> historic_rate[4], low |-> historic_rate[5],
     close |-> historic_rate[6], volume |-> historic_rate[7]]

\* lines 472-477: the point query for the key of the rate.
tuple_exists(d, historic_rate) ==
    \E k \in 1..Len(d.historic_rates) :
        /\ d.historic_rates[k].exchange_pair_id = historic_rate[1]
        /\ d.historic_rates[k].timestamp = historic_rate[2]

\* RateStep without the point query.
RateStepNoQuery(s, historic_rate) ==
    IF s.err THEN s
    ELSE IF Len(historic_rate) < 7 THEN [s EXCEPT !.err = TRUE]
    ELSE [s EXCEPT !.d.historic_rates = Append(@, RateRow(historic_rate)), !.i = @ + 1]

\* One iteration of the loop over historic_rates (lines 470-490): a session
\* scope of its own, committed when it is left.  err: an exception ended the loop.
RateStep(s, historic_rate) ==
    IF s.err THEN s
    ELSE IF Len(historic_rate) < 2 THEN [s EXCEPT !.err = TRUE]
    ELSE IF tuple_exists(s.d, historic_rate) THEN s
    ELSE IF Len(historic_rate) < 7 THEN [s EXCEPT !.err = TRUE]
    ELSE [s EXCEPT !.d.historic_rates = Append(@, RateRow(historic_rate)), !.i = @ + 1]

RECURSIVE RateLoop(_, _, _)
\* for historic_rate in historic_rates (from position k on)
RateLoop(s, historic_rates, k) ==
    IF k > Len(historic_rates) THEN s
    ELSE RateLoop(RateStep(s, historic_rates[k]), historic_rates, k + 1)

\* persist_historic_rates with one commit after the loop: an exception in the
\* loop undoes the rows of the tuples before it.
persist_historic_rates_one_commit(d, historic_rates) ==
    [d |-> IF RateLoop([d |-> d, i |-> 0, err |-> FALSE], historic_rates, 1).err THEN d
           ELSE RateLoop([d |-> d, i |-> 0, err |-> FALSE], historic_rates, 1).d,
     out |-> IF Len(historic_rates) = 0 THEN "raised" ELSE "returned"]

\* The whole call.  An exception in the loop is caught (line 491).  With no rate
\* the name session is unbound in the finally clause (line 496) and the call
\* raises UnboundLocalError.
persist_historic_rates(d, historic_rates) ==
    LET s == RateLoop([d |-> d, i |-> 0, err |-> FALSE], historic_rates, 1)
    IN  [d |-> s.d, out |-> IF Len(historic_rates) = 0 THEN "raised" ELSE "returned"]

(***************************************************************************)
(* The calls of the pair store, one action per DatabaseHandler method.     *)
(***************************************************************************)
\* The record of a call: the database before it (pre), its arguments, what it
\* returned (res), whether it returned or raised (out), and whether the call
\* before it was the same call with the same arguments (rep).
Call(op, arg, res, out) ==
    [op |-> op, arg |-> arg, res |-> res, out |-> out, pre |-> db,
     rep |-> last.op = op /\ last.arg = arg]

NoCall == [op |-> "none", arg |-> <<>>, res |-> <<>>, out |-> "returned", pre |-> EmptyDb,
           rep |-> FALSE]

\* A Scheduler that was constructed with no job and never started.
NoHist == [validations |-> 0, ended |-> <<>>, rounds |-> 0, requested |-> FALSE]

NoScheduler ==
    /\ job_list = <<>>
    /\ jobs = <<>>
    /\ validated = FALSE
    /\ proc = "idle"
    /\ tasks = <<>>
    /\ hist = NoHist

PersistPairs(currency_pairs) ==
    /\ UNCHANGED schedVars
    /\ db' = persist_exchange_currency_pairs(db, currency_pairs)
    /\ last' = Call("persist_exchange_currency_pairs", <<currency_pairs>>, <<>>, "returned")

PersistExchange(exchange_name) ==
    /\ UNCHANGED schedVars
    /\ db' = persist_exchange(db, exchange_name)
    /\ last' = Call("persist_exchange", <<exchange_name>>, <<>>, "returned")

GetExchangesCurrencyPairs(exchange_name, currency_pairs, first_currencies, second_currencies) ==
    /\ UNCHANGED schedVars
    /\ db' = db
    /\ last' = Call("get_exchanges_currency_pairs",
                    <<exchange_name, currency_pairs, first_currencies, second_currencies>>,
                    get_exchanges_currency_pairs(db, exchange_name, currency_pairs,
                                                 first_currencies, second_currencies),
                    "returned")

(***************************************************************************)
(* SpecPairs: any sequence of persist_exchange_currency_pairs and          *)
(* persist_exchange calls on an initially empty database.                  *)
(***************************************************************************)
PairTuples ==
    { <<"kraken", "btc", "USD">>, <<"KRAKEN", "BTC", "usd">>, <<"KRAKEN", "USD", "btc">>,
      <<"BINANCE", "usd", "USD">>, <<"KRAKEN", None, "USD">> }

InitPairs ==
    /\ db = EmptyDb
    /\ last = NoCall
    /\ NoScheduler

NextPairs ==
    \/ \E currency_pairs \in {Some(l) : l \in SeqsUpTo(PairTuples, MaxLen)} \cup {NoneList} :
           PersistPairs(currency_pairs)
    \/ \E exchange_name \in {"kraken", "BINANCE"} : PersistExchange(exchange_name)

SpecPairs == InitPairs /\ [][NextPairs]_vars

\* The rows of the pair table that stand for the triple cp, compared by name.
Complete(cp) == cp[1] # None /\ cp[2] # None /\ cp[3] # None

SelfPaired(cp) == Complete(cp) /\ Upper(cp[2]) = Upper(cp[3])

RowsOfTriple(d, cp) ==
    { i \in 1..Len(d.pairs) :
        /\ d.exchanges[d.pairs[i].exchange_id] = Upper(cp[1])
        /\ d.currencies[d.pairs[i].first_id] = Upper(cp[2])
        /\ d.currencies[d.pairs[i].second_id] = Upper(cp[3]) }

CalledTwice == last.op = "persist_exchange_currency_pairs" /\ last.rep /\ ~IsNone(last.arg[1])

\* C1 as stated: after persist_exchange_currency_pairs was called twice with the
\* same list, every complete triple of the list has exactly one row.
C1_OneRowPerTriple ==
    CalledTwice =>
        \A cp \in Range(Get(last.arg[1])) :
            Complete(cp) => Cardinality(RowsOfTriple(db, cp)) = 1

\* C1 amended: the same, for a list none of whose triples names one currency
\* (ignoring case) as both first and second.
C1_OneRowPerTripleNoSelfPair ==
    (CalledTwice /\ \A cp \in Range(Get(last.arg[1])) : ~SelfPaired(cp)) =>
        \A cp \in Range(Get(last.arg[1])) :
            Complete(cp) => Cardinality(RowsOfTriple(db, cp)) = 1

\* A list that names one triple twice, in two spellings, was persisted twice
\* on a database that held another pair before.
C1_Witness ==
    /\ CalledTwice
    /\ Get(last.arg[1]) = << <<"kraken", "btc", "USD">>, <<"KRAKEN", "BTC", "usd">> >>
    /\ Len(db.pairs) = 2
    /\ Cardinality(RowsOfTriple(db, <<"kraken", "btc", "USD">>)) = 1

(***************************************************************************)
(* SpecQuery: the selector queries on every database that single-pair      *)
(* persists build.                                                         *)
(***************************************************************************)
StoredTuples ==
    { <<"KRAKEN", "BTC", "USD">>, <<"KRAKEN", "ETH", "USD">>, <<"KRAKEN", "USD", "BTC">>,
      <<"BINANCE", "BTC", "USD">> }

PairSelectors ==
    { NoneList, Some(<<>>),
      Some(<<[first |-> "btc", second |-> "USD"], [first |-> "BTC", second |-> "USD"],
             [first |-> "USD", second |-> None]>>) }

FirstSelectors == { NoneList, Some(<<>>), Some(<<"BTC", "eth", None>>) }

SecondSelectors == { Some(<<>>), Some(<<"usd">>), Some(<<"BTC", "BTC">>) }

InitQuery ==
    /\ db = EmptyDb
    /\ last = NoCall
    /\ NoScheduler

NextQuery ==
    \/ \E cp \in StoredTuples : PersistPairs(Some(<<cp>>))
    \/ \E exchange_name \in {"kraken", None},
          currency_pairs \in PairSelectors,
          first_currencies \in FirstSelectors,
          second_currencies \in SecondSelectors :
           GetExchangesCurrencyPairs(exchange_name, currency_pairs,
                                     first_currencies, second_currencies)

SpecQuery == InitQuery /\ [][NextQuery]_vars

Queried == last.op = "get_exchanges_currency_pairs"

NameMatches(name, stored) == name # None /\ Upper(name) = stored

\* The rows of exchange_name that match one of the three selectors, by name.
Selected(d, exchange_name, currency_pairs, first_currencies, second_currencies) ==
    { i \in 1..Len(d.pairs) :
        LET ex     == d.exchanges[d.pairs[i].exchange_id]
            first  == d.currencies[d.pairs[i].first_id]
            second == d.currencies[d.pairs[i].second_id]
        IN  /\ NameMatches(exchange_name, ex)
            /\ \/ /\ ~IsNone(currency_pairs)
                   /\ \E k \in 1..Len(Get(currency_pairs)) :
                          /\ NameMatches(Get(currency_pairs)[k].first, first)
                          /\ NameMatches(Get(currency_pairs)[k].second, second)
               \/ /\ ~IsNone(first_currencies)
                   /\ \E k \in 1..Len(Get(first_currencies)) :
                          NameMatches(Get(first_currencies)[k], first)
               \/ /\ ~IsNone(second_currencies)
                   /\ \E k \in 1..Len(Get(second_currencies)) :
                          NameMatches(Get(second_currencies)[k], second) }

RowsOfExchange(d, exchange_name) ==
    { i \in 1..Len(d.pairs) : NameMatches(exchange_name, d.exchanges[d.pairs[i].exchange_id]) }

\* C9: get_exchanges_currency_pairs returns exactly the rows of the named exchange
\* that match at least one selector, each of them once.
C9_SelectorUnion ==
    Queried =>
        /\ Range(last.res) = Selected(db, last.arg[1], last.arg[2], last.arg[3], last.arg[4])
        /\ \A i, j \in 1..Len(last.res) : last.res[i] = last.res[j] => i = j

\* A query on KRAKEN whose exact pair and first currency select the same row and
\* whose second currency selects another, while BINANCE has a row that matches too.
C9_Witness ==
    /\ Queried
    /\ last.arg[1] = "kraken"
    /\ ~IsNone(last.arg[2]) /\ Len(Get(last.arg[2])) = 3
    /\ ~IsNone(last.arg[3]) /\ Len(Get(last.arg[3])) = 3
    /\ last.arg[4] = Some(<<"BTC", "BTC">>)
    /\ Len(last.res) = 3
    /\ RowsOfExchange(db, "BINANCE") # {}
    /\ Len(db.pairs) = 4

NoCriteria(o) == IsNone(o) \/ Len(Get(o)) = 0

\* C10 as stated: a query without any selection criterion returns all the rows
\* stored for the exchange.
C10_NoCriteriaMeansAll ==
    (Queried /\ NoCriteria(last.arg[2]) /\ NoCriteria(last.arg[3]) /\ NoCriteria(last.arg[4])) =>
        Range(last.res) = RowsOfExchange(db, last.arg[1])

(***************************************************************************)
(* SpecTickers: any sequence of persist_tickers calls on an initially      *)
(* empty database; the pairs are those the calls themselves create.        *)
(***************************************************************************)
\* A call that left the database r.d with the outcome r.out.
Called(op, arg, r) ==
    /\ UNCHANGED schedVars
    /\ db' = r.d
    /\ last' = Call(op, arg, <<>>, r.out)

PersistTickers(queried_currency_pairs, tickers) ==
    /\ Len(db.tickers) + Len(tickers) <= MaxTickers
    /\ Called("persist_tickers", <<queried_currency_pairs, tickers>>,
              persist_tickers(db, queried_currency_pairs, tickers))

TickerTuples ==
    { <<"kraken", 10, 11, "btc", "USD", 100, 101, 99, 102, 5000>>,
      <<"KRAKEN", 10, 12, "ETH", "usd", 7, 8, 6, 9, 70>>,
      <<"KRAKEN", 10, 12, None, "USD", 1, 1, 1, 1, 1>> }

InitTickers ==
    /\ db = EmptyDb
    /\ last = NoCall
    /\ NoScheduler

NextTickers ==
    \E ids \in SUBSET (1..Len(db.pairs)), tickers \in SeqsUpTo(TickerTuples, MaxLen) :
        PersistTickers(Ascending(ids), tickers)

SpecTickers == InitTickers /\ [][NextTickers]_vars

\* The id of the pair row of the ticker's (exchange, first, second), 0 if none.
ResolvedPair(d, ticker) ==
    IF ticker[1] = None \/ ticker[4] = None \/ ticker[5] = None THEN 0
    ELSE PairQuery(d, get_exchange_id(d, ticker[1]), get_currency_id(d, ticker[4]),
                   get_currency_id(d, ticker[5]))

TickersPersisted == last.op = "persist_tickers"

NewTickers == SubSeq(db.tickers, Len(last.pre.tickers) + 1, Len(db.tickers))

PersistHistoricRates(historic_rates) ==
    Called("persist_historic_rates", <<historic_rates>>, persist_historic_rates(db, historic_rates))

RateTuples ==
    { <<1, 10, 1, 2, 0, 1, 9>>, <<1, 10, 5, 6, 4, 5, 8>>, <<1, 20, 1, 2, 0, 1, 9>>,
      <<2, 10, 1, 2, 0, 1, 9>>, <<1>> }

InitRates ==
    /\ db = EmptyDb
    /\ last = NoCall
    /\ NoScheduler

NextRates ==
    \E historic_rates \in SeqsUpTo(RateTuples, MaxLen) : PersistHistoricRates(historic_rates)

SpecRates == InitRates /\ [][NextRates]_vars

RateKey(row) == <<row.exchange_pair_id, row.timestamp>>

RatesOfKey(tbl, key) == { k \in 1..Len(tbl) : RateKey(tbl[k]) = key }

\* The tuples of the call that were presented: those before the first tuple that
\* raised.
RECURSIVE Presented(_)
Presented(historic_rates) ==
    IF Len(historic_rates) = 0 \/ Len(Head(historic_rates)) < 7 THEN <<>>
    ELSE <<Head(historic_rates)>> \o Presented(Tail(historic_rates))

RatesPersisted == last.op = "persist_historic_rates"

\* C2: the table never holds two rows of one (exchange_pair_id, timestamp); a call
\* leaves the rows stored before as they were, adds no row for a presented tuple
\* whose key was stored, and adds exactly one row per key presented and not stored.
C2_OneRowPerKey ==
    /\ \A i, j \in 1..Len(db.historic_rates) :
           RateKey(db.historic_rates[i]) = RateKey(db.historic_rates[j]) => i = j
    /\ RatesPersisted =>
         LET before == last.pre.historic_rates
             given  == Presented(last.arg[1])
             keys   == { <<given[k][1], given[k][2]>> : k \in 1..Len(given) }
             fresh  == { key \in keys : RatesOfKey(before, key) = {} }
         IN  /\ SubSeq(db.historic_rates, 1, Len(before)) = before
             /\ Len(db.historic_rates) = Len(before) + Cardinality(fresh)
             /\ \A key \in keys : Cardinality(RatesOfKey(db.historic_rates, key)) = 1

\* A call presented a tuple whose key was stored (with other prices) and a tuple of
\* the same pair with a timestamp not stored: the table grew by exactly one row.
C2_Witness ==
    /\ RatesPersisted
    /\ last.arg[1] = << <<1, 10, 5, 6, 4, 5, 8>>, <<1, 20, 1, 2, 0, 1, 9>> >>
    /\ last.pre.historic_rates = << RateRow(<<1, 10, 1, 2, 0, 1, 9>>) >>
    /\ db.historic_rates = << RateRow(<<1, 10, 1, 2, 0, 1, 9>>), RateRow(<<1, 20, 1, 2, 0, 1, 9>>) >>

\* ---------------------------------------------------------------------------
\* Scheduler (model/scheduling/scheduler.py)
\*
\* A Job is a record [request_name, job_params, exchanges_with_pairs]; the
\* dictionary exchanges_with_pairs is the sequence of its entries
\* <<exchange, pairs>> in insertion order, and an Exchange object is
\* identified by its name.  Jobs are referred to by their ids, job_list is
\* the one list object the Scheduler, validate_job and remove_jobs share.
\* ---------------------------------------------------------------------------

RECURSIVE DictIndex(_, _, _)
DictIndex(dict, key, i) ==
    IF i > Len(dict) THEN 0
    ELSE IF dict[i][1] = key THEN i
    ELSE DictIndex(dict, key, i + 1)

DictKeys(dict) == [i \in 1..Len(dict) |-> dict[i][1]]

\* dict[key] = value: an existing key keeps its place, a new one goes last.
DictSet(dict, key, value) ==
    LET i == DictIndex(dict, key, 1)
    IN  IF i = 0 THEN Append(dict, <<key, value>>)
        ELSE [dict EXCEPT ![i] = <<key, value>>]

\* A del that leaves the dictionary as it is.
DictDelNothing(dict, key) == dict

\* del dict[key]
DictDel(dict, key) ==
    LET i == DictIndex(dict, key, 1)
    IN  SubSeq(dict, 1, i - 1) \o SubSeq(dict, i + 1, Len(dict))

\* A remove that takes the head of the list, whatever x is.
ListRemoveHead(list, x) == Tail(list)

\* list.remove(x): removes the first element equal to x.
ListRemove(list, x) ==
    LET i == FirstIndex(list, x)
    IN  SubSeq(list, 1, i - 1) \o SubSeq(list, i + 1, Len(list))

\* remove_jobs, nested in validate_job.  s = [job_list, jobs]; the result is
\* [out, s] with out "return" (the list is returned), "exit" (sys.exit(0)
\* after the report) or "error" (RuntimeError: dictionary changed size
\* during iteration).  "next" is a loop that ran to its end.
\*
\* The for loop over job_list is Python's list iterator: it holds an index
\* into the list, so the loop goes on with whatever stands at the next index
\* after a removal.  The for loop over the keys is the dictionary's
\* iterator: every step first compares the dictionary's size to the size at
\* the start of the loop and raises if they differ.
\*
\* Every call of remove_jobs is given the number of calls that may still be
\* nested in it (left); a call that may not be made ends the pruning with
\* "too_deep".  The result tells how many were left where it was made.
RECURSIVE RemoveJobsCall(_, _), JobLoop(_, _, _), KeyLoop(_, _, _, _, _)
KeyLoop(s, job, size, k, left) ==
    LET dict == s.jobs[job].exchanges_with_pairs
    IN  IF Len(dict) # size THEN [out |-> "error", s |-> s, left |-> left]
        ELSE IF k > size THEN [out |-> "next", s |-> s, left |-> left]
        ELSE IF dict[k][2] = <<>>
        THEN LET deleted == [s EXCEPT !.jobs[job].exchanges_with_pairs = DictDel(dict, dict[k][1])]
                 r == RemoveJobsCall(deleted, left - 1)
             IN  IF r.out = "return" THEN KeyLoop(r.s, job, size, k + 1, left) ELSE r
        ELSE KeyLoop(s, job, size, k + 1, left)

JobLoop(s, i, left) ==
    IF i > Len(s.job_list) THEN [out |-> "next", s |-> s, left |-> left]
    ELSE LET job == s.job_list[i]
             removed == IF s.jobs[job].exchanges_with_pairs = <<>>
                        THEN [s EXCEPT !.job_list = ListRemove(@, job)]
                        ELSE s
             r == KeyLoop(removed, job, Len(s.jobs[job].exchanges_with_pairs), 1, left)
         IN  IF r.out = "next" THEN JobLoop(r.s, i + 1, left) ELSE r

RemoveJobsCall(s, left) ==
    IF left < 0 THEN [out |-> "too_deep", s |-> s, left |-> left]
    ELSE IF s.job_list = <<>> THEN [out |-> "exit", s |-> s, left |-> left]
    ELSE LET r == JobLoop(s, 1, left)
         IN  IF r.out # "next" THEN r
             ELSE IF r.s.job_list # <<>> THEN [out |-> "return", s |-> r.s, left |-> left]
             ELSE RemoveJobsCall(r.s, left - 1)

RECURSIVE Entries(_, _)
\* The number of entries of the dictionaries of the jobs from job i on.
Entries(js, i) ==
    IF i > Len(js) THEN 0 ELSE Len(js[i].exchanges_with_pairs) + Entries(js, i + 1)

\* A nested call follows a del, the call at the end of remove_jobs finds the
\* list empty: no more calls are nested than there are entries, and one.
DepthBound(s) == Entries(s.jobs, 1) + 1

remove_jobs(s) == RemoveJobsCall(s, DepthBound(s))

\* The jobs the configuration makes.  Every job selects the pairs whose first
\* currency is BTC; its dictionary holds each of its exchanges with the
\* pairs not resolved yet.
JobParams(update_cp) ==
    [update_cp |-> update_cp, currency_pairs |-> NoneList,
     first_currencies |-> Some(<<"BTC">>), second_currencies |-> NoneList]

NewJob(request_name, exchanges, update_cp) ==
    [request_name |-> request_name,
     job_params |-> JobParams(update_cp),
     exchanges_with_pairs |-> [i \in 1..Len(exchanges) |-> <<exchanges[i], <<>> >>]]

\* Exchange.format_currency_pairs: the tuples (exchange name, first, second)
\* of the pairs the exchange offers.
format_currency_pairs(exchange, response) ==
    [i \in 1..Len(response) |-> <<exchange, response[i][1], response[i][2]>>]

\* update_currency_pairs after its request has answered (lines 145-148):
\* a response with pairs is formatted and persisted.  The is_exchange flag
\* of the call is a column of the exchange's row that no query reads.
update_currency_pairs(s, exchange, response) ==
    IF response # <<>>
    THEN [s EXCEPT !.db = persist_exchange_currency_pairs(
                              @, Some(format_currency_pairs(exchange, response)))]
    ELSE s

\* lines 161-166: the job's entry of the exchange becomes the selector query's result.
SetPairs(s, job, exchange) ==
    LET job_params == s.jobs[job].job_params
    IN  [s EXCEPT !.jobs[job].exchanges_with_pairs =
            DictSet(@, exchange,
                    get_exchanges_currency_pairs(s.db, exchange, job_params.currency_pairs,
                        job_params.first_currencies, job_params.second_currencies))]

\* The position of one get_currency_pairs call in its loops: ji is the index
\* the iterator over job_list fetches next, job the job fetched (0: none),
\* exchanges the copy of its keys, ei the position in that copy.
FirstLoc == [ji |-> 1, job |-> 0, exchanges |-> <<>>, ei |-> 1]

\* ResolveLoop that requests the pairs of every exchange, whatever the store holds.
RECURSIVE ResolveLoopAlwaysRequests(_, _)
ResolveLoopAlwaysRequests(s, loc) ==
    IF loc.job = 0
    THEN IF loc.ji > Len(s.job_list)
         THEN [s |-> s, loc |-> loc, at |-> "return"]
         ELSE ResolveLoopAlwaysRequests(
                  s, [loc EXCEPT !.job = s.job_list[loc.ji], !.ei = 1,
                          !.exchanges = DictKeys(s.jobs[s.job_list[loc.ji]].exchanges_with_pairs)])
    ELSE IF loc.ei > Len(loc.exchanges)
    THEN ResolveLoopAlwaysRequests(s, [loc EXCEPT !.job = 0, !.ji = @ + 1])
    ELSE [s |-> s, loc |-> loc, at |-> "request_currency_pairs"]

\* get_currency_pairs (lines 150-168) from the position loc on, up to its
\* next suspension in update_currency_pairs or to its return.
\* s = [db, job_list, jobs].
RECURSIVE ResolveLoop(_, _)
ResolveLoop(s, loc) ==
    IF loc.job = 0
    THEN IF loc.ji > Len(s.job_list)
         THEN [s |-> s, loc |-> loc, at |-> "return"]
         ELSE LET job == s.job_list[loc.ji]
              IN  ResolveLoop(s, [loc EXCEPT !.job = job, !.ei = 1,
                                     !.exchanges = DictKeys(s.jobs[job].exchanges_with_pairs)])
    ELSE IF loc.ei > Len(loc.exchanges)
    THEN ResolveLoop(s, [loc EXCEPT !.job = 0, !.ji = @ + 1])
    ELSE LET exchange == loc.exchanges[loc.ei]
         IN  IF \/ s.jobs[loc.job].job_params.update_cp
                \/ get_all_currency_pairs_from_exchange(s.db, exchange) = <<>>
             THEN [s |-> s, loc |-> loc, at |-> "request_currency_pairs"]
             ELSE ResolveLoop(SetPairs(s, loc.job, exchange), [loc EXCEPT !.ei = @ + 1])

\* determine_task: the function of the request name.
determine_task(request_name) ==
    IF request_name \in {"ticker", "historic_rates", "order_books", "trades", "ohlcvm"}
    THEN "get_job_done"
    ELSE IF request_name = "currency_pairs" THEN "get_currency_pairs"
    ELSE "lambda"

\* FindExchange that compares the names as they are written.
RECURSIVE FindExchangeSameCase(_, _, _)
FindExchangeSameCase(dict, exchange_name, i) ==
    IF i > Len(dict) THEN None
    ELSE IF dict[i][1] = exchange_name THEN dict[i][1]
    ELSE FindExchangeSameCase(dict, exchange_name, i + 1)

\* lines 187-191: the first exchange of the dictionary with the response's name.
RECURSIVE FindExchange(_, _, _)
FindExchange(dict, exchange_name, i) ==
    IF i > Len(dict) THEN None
    ELSE IF Upper(dict[i][1]) = Upper(exchange_name) THEN dict[i][1]
    ELSE FindExchange(dict, exchange_name, i + 1)

\* A response loop that ends at the first falsy response.
RECURSIVE ResponseLoopEndsAtFalsy(_, _, _)
ResponseLoopEndsAtFalsy(dict, responses, i) ==
    IF i > Len(responses) \/ responses[i].state = "falsy" THEN <<>>
    ELSE (IF responses[i].state = "tuples" THEN <<responses[i].exchange>> ELSE <<>>)
         \o ResponseLoopEndsAtFalsy(dict, responses, i + 1)

\* for response in responses (lines 182-205, from position i on): the
\* exchanges handed to persist_response, in the order handed.  A response is
\* "falsy", or truthy with a name and a payload that format_data turns into
\* "tuples" or into "no_tuples".
RECURSIVE ResponseLoop(_, _, _)
ResponseLoop(dict, responses, i) ==
    IF i > Len(responses) THEN <<>>
    ELSE LET response == responses[i]
             found_exchange == FindExchange(dict, response.exchange, 1)
             handed == IF /\ response.state # "falsy"
                          /\ found_exchange # None
                          /\ response.state = "tuples"
                       THEN <<found_exchange>>
                       ELSE <<>>
         IN  handed \o ResponseLoop(dict, responses, i + 1)

\* One run(job) coroutine.  requests are the requests of its gather in the
\* order submitted, completed their positions in the order they ended.
NewTask(job) ==
    [job |-> job, pc |-> "created", loc |-> FirstLoc, requests |-> <<>>,
     completed |-> <<>>, persisted |-> <<>>, cause |-> "none"]

\* The state one step of a coroutine works on.
Frame(t) ==
    [db |-> db, job_list |-> job_list, jobs |-> jobs, validated |-> validated,
     proc |-> proc, task |-> tasks[t], hist |-> hist]

Raise(g, cause) == [g EXCEPT !.task.pc = "raised", !.task.cause = cause]

\* get_job_done up to its gather (lines 175-180): one request per exchange
\* of the job's dictionary, with the pair list of its entry as the argument.
\* gather of no awaitable is done at once.
FanOut(g) ==
    LET dict == g.jobs[g.task.job].exchanges_with_pairs
    IN  IF dict = <<>> THEN [g EXCEPT !.task.pc = "done"]
        ELSE [g EXCEPT !.task.pc = "gather",
                       !.task.requests = [i \in 1..Len(dict) |->
                                            [exchange |-> dict[i][1], pairs |-> dict[i][2],
                                             state |-> "pending"]],
                       !.hist.requested = TRUE]

\* run after validation (lines 66-70).  The lambda of an unknown request
\* name has no get; get_currency_pairs takes one argument, not three.
Dispatch(g) ==
    LET request_fun == determine_task(g.jobs[g.task.job].request_name)
    IN  IF request_fun = "get_job_done" THEN FanOut(g)
        ELSE IF request_fun = "lambda" THEN Raise(g, "AttributeError")
        ELSE Raise(g, "TypeError")

\* Every exchange of every job has an empty pair list.
NothingResolved(s) ==
    \A i \in 1..Len(s.job_list) :
        \A k \in 1..Len(s.jobs[s.job_list[i]].exchanges_with_pairs) :
            s.jobs[s.job_list[i]].exchanges_with_pairs[k][2] = <<>>

\* lines 106-108 and the rest of run: the job list is pruned, and if the
\* pruning returns the Scheduler is validated and the job is dispatched.
Prune(g) ==
    LET s == [job_list |-> g.job_list, jobs |-> g.jobs]
        r == remove_jobs(s)
        h == [g EXCEPT !.job_list = r.s.job_list, !.jobs = r.s.jobs,
                       !.hist.ended = Append(@, [empty |-> NothingResolved(s), out |-> r.out,
                                                     nested |-> DepthBound(s) - r.left])]
    IN  IF r.out = "return" THEN Dispatch([h EXCEPT !.validated = TRUE])
        ELSE IF r.out = "exit" THEN [h EXCEPT !.proc = "exited", !.task.pc = "exited"]
        ELSE Raise(h, "RuntimeError")

\* validate_job from the position loc of get_currency_pairs on.
Validate(g, s, loc) ==
    LET r == ResolveLoop(s, loc)
        h == [g EXCEPT !.db = r.s.db, !.jobs = r.s.jobs, !.task.loc = r.loc]
    IN  IF r.at = "request_currency_pairs"
        THEN [h EXCEPT !.task.pc = "request_currency_pairs"]
        ELSE Prune(h)

Becomes(t, g) ==
    /\ db' = g.db
    /\ job_list' = g.job_list
    /\ jobs' = g.jobs
    /\ validated' = g.validated
    /\ proc' = g.proc
    /\ tasks' = [tasks EXCEPT ![t] = g.task]
    /\ hist' = g.hist
    /\ UNCHANGED last

Running == proc \in {"round", "slept"}

\* A start that is called while the round before is under way.
StartOverlapping ==
    /\ proc \in {"idle", "round", "slept"}
    /\ hist.rounds < MaxRounds
    /\ proc' = "round"
    /\ tasks' = [i \in 1..Len(job_list) |-> NewTask(job_list[i])]
    /\ hist' = [hist EXCEPT !.rounds = @ + 1]
    /\ UNCHANGED <<db, last, job_list, jobs, validated>>

\* start up to its gather (lines 50-54): one coroutine per job of the list.
Start ==
    /\ proc = "idle"
    /\ hist.rounds < MaxRounds
    /\ proc' = "round"
    /\ tasks' = [i \in 1..Len(job_list) |-> NewTask(job_list[i])]
    /\ hist' = [hist EXCEPT !.rounds = @ + 1]
    /\ UNCHANGED <<db, last, job_list, jobs, validated>>

\* run up to its first suspension (lines 63-70).  The event loop starts the
\* coroutines in the order gather was given them.
RunBegins(t) ==
    /\ Running
    /\ tasks[t].pc = "created"
    /\ \A u \in 1..(t - 1) : tasks[u].pc # "created"
    /\ LET g == Frame(t)
       IN  IF ~validated
           THEN Becomes(t, Validate([g EXCEPT !.hist.validations = @ + 1],
                                    [db |-> db, job_list |-> job_list, jobs |-> jobs],
                                    FirstLoc))
           ELSE Becomes(t, Dispatch(g))

\* exchange.request_currency_pairs() answers the coroutine suspended in
\* update_currency_pairs (line 144), which goes on to its next suspension.
CurrencyPairsArrive(t, response) ==
    /\ Running
    /\ tasks[t].pc = "request_currency_pairs"
    /\ LET loc == tasks[t].loc
           exchange == loc.exchanges[loc.ei]
           s == update_currency_pairs([db |-> db, job_list |-> job_list, jobs |-> jobs],
                                      exchange, response)
       IN  Becomes(t, Validate(Frame(t), SetPairs(s, loc.job, exchange),
                               [loc EXCEPT !.ei = @ + 1]))

\* One exchange.request of a gather ends: with a response or with an exception.
RequestEnds(t, k, state) ==
    /\ Running
    /\ k \in 1..Len(tasks[t].requests)
    /\ tasks[t].requests[k].state = "pending"
    /\ tasks' = [tasks EXCEPT ![t].requests[k].state = state,
                              ![t].completed = Append(@, k)]
    /\ UNCHANGED <<db, last, job_list, jobs, validated, proc, hist>>

\* GatherEnds that goes on to the responses without waiting for all of them.
GatherEndsWithoutBarrier(t) ==
    /\ Running
    /\ tasks[t].pc = "gather"
    /\ \E k \in 1..Len(tasks[t].requests) : tasks[t].requests[k].state # "pending"
    /\ Becomes(t, [Frame(t) EXCEPT
            !.task.pc = "done",
            !.task.persisted = ResponseLoop(jobs[tasks[t].job].exchanges_with_pairs,
                                            tasks[t].requests, 1)])

\* get_job_done after its gather (lines 178-207).  gather hands on the first
\* exception as soon as it is raised; otherwise it returns the responses, in
\* the order of the requests, once all are there.
GatherEnds(t) ==
    LET requests == tasks[t].requests
        states == {requests[k].state : k \in 1..Len(requests)}
    IN  /\ Running
        /\ tasks[t].pc = "gather"
        /\ IF "raised" \in states
           THEN Becomes(t, Raise(Frame(t), "request"))
           ELSE /\ "pending" \notin states
                /\ Becomes(t, [Frame(t) EXCEPT
                        !.task.pc = "done",
                        !.task.persisted = ResponseLoop(
                            jobs[tasks[t].job].exchanges_with_pairs, requests, 1)])

\* asyncio.sleep(self.frequency) of start ends.
SleepEnds ==
    /\ proc = "round"
    /\ proc' = "slept"
    /\ UNCHANGED <<db, last, job_list, jobs, validated, tasks, hist>>

\* A start that returns when its sleep is over, whatever the coroutines do.
StartReturnsUnjoined ==
    /\ proc = "slept"
    /\ proc' = "idle"
    /\ UNCHANGED <<db, last, job_list, jobs, validated, tasks, hist>>

\* start returns: every coroutine and the sleep have ended.
StartReturns ==
    /\ proc = "slept"
    /\ \A t \in 1..Len(tasks) : tasks[t].pc = "done"
    /\ proc' = "idle"
    /\ UNCHANGED <<db, last, job_list, jobs, validated, tasks, hist>>

\* start raises the first exception of a coroutine; nothing catches it.
StartRaises ==
    /\ Running
    /\ \E t \in 1..Len(tasks) : tasks[t].pc = "raised"
    /\ proc' = "crashed"
    /\ UNCHANGED <<db, last, job_list, jobs, validated, tasks, hist>>

CurrencyPairResponses == { <<>>, << <<"BTC", "USD">> >> }

RequestStates == {"falsy", "raised", "tuples", "no_tuples"}

\* The databases an earlier process may have left: no pair, the pair BTC/USD
\* of one exchange, the pair BTC/USD of every exchange.
KrakenDb == persist_exchange_currency_pairs(EmptyDb, Some(<< <<"kraken", "BTC", "USD">> >>))

FullDb ==
    persist_exchange_currency_pairs(KrakenDb,
        Some(<< <<"BINANCE", "BTC", "USD">>, <<"BITFINEX", "BTC", "USD">> >>))

ConfiguredJobs ==
    << NewJob("ticker", <<"kraken", "BINANCE", "BITFINEX">>, FALSE),
       NewJob("ticker", <<"BINANCE">>, TRUE) >>

\* The request names the second job may be configured with: one that stands
\* for get_job_done in the table of determine_task, the one that stands for
\* get_currency_pairs, and one that is not in the table.
RequestNames == {"ticker", "currency_pairs", "tickers"}

InitSched ==
    /\ db \in {EmptyDb, KrakenDb, FullDb}
    /\ last = NoCall
    /\ \E n \in 0..Len(ConfiguredJobs), request_name \in RequestNames :
          /\ job_list = [i \in 1..n |-> i]
          /\ jobs = SubSeq([ConfiguredJobs EXCEPT ![2].request_name = request_name], 1, n)
    /\ validated = FALSE
    /\ proc = "idle"
    /\ tasks = <<>>
    /\ hist = NoHist

NextSched ==
    \/ Start
    \/ \E t \in 1..Len(tasks) : RunBegins(t)
    \/ \E t \in 1..Len(tasks), response \in CurrencyPairResponses : CurrencyPairsArrive(t, response)
    \/ \E t \in 1..Len(tasks) :
          \E k \in 1..Len(tasks[t].requests), state \in RequestStates : RequestEnds(t, k, state)
    \/ \E t \in 1..Len(tasks) : GatherEnds(t)
    \/ SleepEnds
    \/ StartReturns
    \/ StartRaises

SpecSched == InitSched /\ [][NextSched]_vars

\* The requests of a coroutine that ended with the state given.
Ended(t, state) == {k \in 1..Len(tasks[t].requests) : tasks[t].requests[k].state = state}

\* The exchanges handed to the store are those whose formatting gave tuples.
HandedAllTuples(t) ==
    \A k \in 1..Len(tasks[t].requests) :
        tasks[t].requests[k].state = "tuples"
            <=> tasks[t].requests[k].exchange \in Range(tasks[t].persisted)

\* C4: in a get_job_done in which a request returned a falsy result and none
\* raised, the exchange of the falsy result is not handed to the store, every
\* exchange whose response formats to tuples is, and get_job_done ends
\* without raising.
C4_FalsySkipped ==
    \A t \in 1..Len(tasks) :
        (Ended(t, "falsy") # {} /\ Ended(t, "raised") = {} /\ tasks[t].pc # "gather")
            => (tasks[t].pc = "done" /\ HandedAllTuples(t))

C4_Witness ==
    /\ Len(tasks) >= 1
    /\ tasks[1].pc = "done"
    /\ Len(tasks[1].requests) = 3
    /\ tasks[1].requests[1].state = "tuples"
    /\ tasks[1].requests[2].state = "falsy"
    /\ tasks[1].requests[3].state = "tuples"
    /\ tasks[1].persisted = <<"kraken", "BITFINEX">>

\* C5: a get_job_done in which a request raised goes on: it is never ended
\* by the exception, and once it is done the exchanges whose responses
\* format to tuples were handed to the store; start does not raise.
C5_RequestFailureIsolated ==
    \A t \in 1..Len(tasks) :
        Ended(t, "raised") # {}
            => /\ tasks[t].pc \in {"gather", "done"}
               /\ tasks[t].pc = "done" => HandedAllTuples(t)
               /\ proc # "crashed"

\* C7: a validation whose pair resolution left every exchange of every job
\* with an empty pair list exits the process, and no data request was issued.
C7_NothingResolvedExits ==
    \A i \in 1..Len(hist.ended) :
        hist.ended[i].empty => (hist.ended[i].out = "exit" /\ proc = "exited" /\ ~hist.requested)

\* C8: the body of validate_job is begun at most once.
C8_ValidatedOnce == hist.validations <= 1

\* ---------------------------------------------------------------------------
\* validate_job after get_currency_pairs has returned (lines 106-108), on
\* every resolved job list of up to MaxJobs jobs.
\* ---------------------------------------------------------------------------
ResolvedDicts ==
    {<<>>} \cup
    { <<e>> : e \in {"kraken", "BINANCE"} \X {<<>>, <<1>>} } \cup
    { <<e, f>> : e \in {"kraken"} \X {<<>>, <<1>>}, f \in {"BINANCE"} \X {<<>>, <<1>>} } \cup
    { <<f, e>> : e \in {"kraken"} \X {<<>>, <<1>>}, f \in {"BINANCE"} \X {<<>>, <<1>>} }

ResolvedJob(dict) == [NewJob("ticker", <<>>, FALSE) EXCEPT !.exchanges_with_pairs = dict]

InitValidate ==
    /\ db = KrakenDb
    /\ last = NoCall
    /\ \E n \in 1..MaxJobs :
          /\ job_list = [i \in 1..n |-> i]
          /\ \E dicts \in [1..n -> ResolvedDicts] : jobs = [i \in 1..n |-> ResolvedJob(dicts[i])]
    /\ validated = FALSE
    /\ proc = "round"
    /\ tasks = << [NewTask(1) EXCEPT !.pc = "get_currency_pairs"] >>
    /\ hist = [NoHist EXCEPT !.validations = 1, !.rounds = 1]

\* get_currency_pairs returns to validate_job (line 105), which goes on.
CurrencyPairsReturn(t) ==
    /\ Running
    /\ tasks[t].pc = "get_currency_pairs"
    /\ Becomes(t, Prune(Frame(t)))

NextValidate == CurrencyPairsReturn(1)

SpecValidate == InitValidate /\ [][NextValidate]_vars

\* C6: a validation that ended did not raise, and if it returned, no job of
\* the job list is without exchanges and no exchange of a job has an empty
\* pair list.
C6_ValidationPrunes ==
    \A i \in 1..Len(hist.ended) :
        /\ hist.ended[i].out # "error"
        /\ hist.ended[i].out = "return" =>
              \A j \in 1..Len(job_list) :
                  /\ jobs[job_list[j]].exchanges_with_pairs # <<>>
                  /\ \A k \in 1..Len(jobs[job_list[j]].exchanges_with_pairs) :
                        jobs[job_list[j]].exchanges_with_pairs[k][2] # <<>>

\* Every coroutine of the round has ended without an exception.
AllRunsDone == \A t \in 1..Len(tasks) : tasks[t].pc = "done"

\* C11: start returns only when every run it started is done and its sleep
\* is over, and it can return as soon as both hold; a round begins only when
\* no round is under way, and the rounds are counted one by one.
C11_RoundsJoinedInTurn ==
    /\ []((proc = "slept" /\ AllRunsDone) => ENABLED StartReturns)
    /\ [][/\ (proc # "idle" /\ proc' = "idle") => (proc = "slept" /\ AllRunsDone)
          /\ hist.rounds' # hist.rounds =>
                (proc = "idle" /\ proc' = "round" /\ hist.rounds' = hist.rounds + 1
                 /\ (hist.rounds > 0 => AllRunsDone))]_vars

\* The second round has begun after a first round of two runs.
C11_Witness ==
    /\ hist.rounds = 2
    /\ proc = "round"
    /\ Len(tasks) = 2
    /\ tasks[1].pc = "created"

\* A job of the configuration has a request name that is not in the table.
UnknownRequestName ==
    \E j \in 1..Len(jobs) : determine_task(jobs[j].request_name) = "lambda"

\* C12: with a job of an unknown request name no validation begins, no
\* exchange request is issued and no run finds the name out at its dispatch.
C12_UnknownNameAtStartup ==
    UnknownRequestName =>
        /\ hist.validations = 0
        /\ ~hist.requested
        /\ \A t \in 1..Len(tasks) : tasks[t].cause # "AttributeError"

\* The exchanges whose responses format to tuples, in the order in which
\* their requests ended (from position i of that order on).
RECURSIVE TuplesAsCompleted(_, _, _)
TuplesAsCompleted(requests, completed, i) ==
    IF i > Len(completed) THEN <<>>
    ELSE (IF requests[completed[i]].state = "tuples"
          THEN <<requests[completed[i]].exchange>> ELSE <<>>)
         \o TuplesAsCompleted(requests, completed, i + 1)

\* C13: a get_job_done that is done handed the responses to the store in the
\* order in which their requests completed.
C13_CompletionOrder ==
    \A t \in 1..Len(tasks) :
        tasks[t].pc = "done" =>
            tasks[t].persisted = TuplesAsCompleted(tasks[t].requests, tasks[t].completed, 1)

\* A data request of some gather is issued and has not ended.
RequestOutstanding ==
    \E t \in 1..Len(tasks) : Ended(t, "pending") # {}

\* C14: no step in which the store is written (pairs persisted by a
\* validation, responses handed to persist_response) is taken while a data
\* request is outstanding.
C14_NoMutationDuringFanOut ==
    [][(\/ db' # db
        \/ /\ Len(tasks') = Len(tasks)
           /\ \E t \in 1..Len(tasks) : tasks'[t].persisted # tasks[t].persisted
                                        /\ tasks'[t].persisted # <<>>)
       => ~RequestOutstanding]_vars

\* C15: when a round after the first begins, every run of the round before
\* has ended, with all its hand-overs to the store made, and none of its
\* requests is outstanding; the requests of the new round are issued later.
C15_PersistenceBeforeNextRound ==
    [][(hist.rounds' > hist.rounds /\ hist.rounds > 0)
          => /\ AllRunsDone
             /\ ~RequestOutstanding
             /\ \A t \in 1..Len(tasks') : tasks'[t].pc = "created"]_vars

\* The second round has issued its requests, after a first round whose
\* runs were done.
C15_Witness ==
    /\ hist.rounds = 2
    /\ Len(tasks) = 1
    /\ tasks[1].pc = "gather"
    /\ Ended(1, "pending") # {}

(***************************************************************************)
(* SpecBatch: persist_exchange_currency_pairs on batches in which a tuple  *)
(* can fail after earlier tuples of the batch were flushed.  The tuple     *)
(* (BINANCE, usd, USD) makes two Currency objects of one stored name when  *)
(* USD is not stored yet: the flush raises IntegrityError.                 *)
(***************************************************************************)
BatchTuples ==
    { <<"kraken", "eth", "btc">>, <<"kraken", "btc", "eth">>,
      <<"BINANCE", "usd", "USD">>, <<"BINANCE", "btc", "USD">> }

InitBatch ==
    /\ db = EmptyDb
    /\ last = NoCall
    /\ NoScheduler

NextBatch ==
    \E currency_pairs \in {Some(l) : l \in SeqsUpTo(BatchTuples, MaxLen)} :
        PersistPairs(currency_pairs)

SpecBatch == InitBatch /\ [][NextBatch]_vars

\* An exception occurred while the batch was processed on the database d.
BatchFailed(d, currency_pairs) ==
    /\ ~IsNone(currency_pairs)
    /\ Flush(PairLoop([d |-> d, pend |-> NoPending, err |-> FALSE],
                      Get(currency_pairs), 1)).err

\* C16: a persist_exchange_currency_pairs call in which an exception occurred
\* left the database as it was before the call and returned.
C16_FailedBatchRolledBack ==
    (last.op = "persist_exchange_currency_pairs" /\ BatchFailed(last.pre, last.arg[1]))
        => (db = last.pre /\ last.out = "returned")

\* The first tuple of the batch was flushed, the second one failed, and the
\* rows of the first are not in the database.
C16_Witness ==
    /\ last.op = "persist_exchange_currency_pairs"
    /\ last.arg[1] = Some(<< <<"kraken", "eth", "btc">>, <<"BINANCE", "usd", "USD">> >>)
    /\ BatchFailed(last.pre, last.arg[1])
    /\ db = last.pre
    /\ get_currency_id(db, "eth") = 0

(***************************************************************************)
(* SpecNames: any sequence of persist_exchange,                            *)
(* persist_exchange_currency_pairs and persist_tickers calls with names in *)
(* both cases, on an initially empty database.                             *)
(***************************************************************************)
NameTuples ==
    { <<"kraken", "btc", "USD">>, <<"KRAKEN", "BTC", "usd">>, <<"BINANCE", "usd", "USD">> }

InitNames ==
    /\ db = EmptyDb
    /\ last = NoCall
    /\ NoScheduler

NextNames ==
    \/ \E exchange_name \in {"kraken", "KRAKEN", "BINANCE"} : PersistExchange(exchange_name)
    \/ \E cp \in NameTuples : PersistPairs(Some(<<cp>>))
    \/ \E ids \in {{}, 1..Len(db.pairs)}, tickers \in SeqsUpTo(TickerTuples, MaxLen) :
           PersistTickers(Ascending(ids), tickers)

SpecNames == InitNames /\ [][NextNames]_vars

\* The names of the table are upper-cased and no two are equal ignoring case.
UniqueIgnoringCase(tbl) ==
    /\ \A i \in 1..Len(tbl) : tbl[i] = Upper(tbl[i])
    /\ \A i, j \in 1..Len(tbl) : Upper(tbl[i]) = Upper(tbl[j]) => i = j

C18_FactRowsReferencePairs ==
    /\ \A i \in 1..Len(db.tickers) : db.tickers[i].exchange_pair_id \in 1..Len(db.pairs)
    /\ \A i \in 1..Len(db.historic_rates) :
          db.historic_rates[i].exchange_pair_id \in 1..Len(db.pairs)

(***************************************************************************)
(* SpecSkip: persist_exchange_currency_pairs and persist_tickers on tuples *)
(* in which a name is None or the empty string.                            *)
(***************************************************************************)
SkipTuples ==
    { <<"kraken", "btc", "USD">>, <<"kraken", None, "USD">>,
      <<"", "btc", "USD">>, <<"kraken", "btc", "">> }

SkipTickers ==
    { <<"kraken", 10, 11, "btc", "USD", 100, 101, 99, 102, 5000>>,
      <<None, 10, 12, "btc", "USD", 1, 1, 1, 1, 1>>,
      <<"kraken", 10, 12, "", "USD", 1, 1, 1, 1, 1>> }

InitSkip ==
    /\ db = EmptyDb
    /\ last = NoCall
    /\ NoScheduler

NextSkip ==
    \/ \E currency_pairs \in {Some(l) : l \in SeqsUpTo(SkipTuples, MaxLen)} :
           PersistPairs(currency_pairs)
    \/ \E ids \in {{}, 1..Len(db.pairs)}, ticker \in SkipTickers :
           PersistTickers(Ascending(ids), <<ticker>>)

SpecSkip == InitSkip /\ [][NextSkip]_vars

\* The names of a pair row.
PairNames(d, row) ==
    <<d.exchanges[row.exchange_id], d.currencies[row.first_id], d.currencies[row.second_id]>>

\* C19: no call with a tuple raised, no Exchange or Currency row has the empty name, and
\* the pair rows are those of the tuples with three names given.
C19_IncompleteTupleSkipped ==
    /\ last.out = "returned" \/ (last.op = "persist_tickers" /\ last.arg[2] = <<>>)
    /\ \A i \in 1..Len(db.exchanges) : db.exchanges[i] # ""
    /\ \A i \in 1..Len(db.currencies) : db.currencies[i] # ""
    /\ \A i \in 1..Len(db.pairs) : PairNames(db, db.pairs[i]) = <<"KRAKEN", "BTC", "USD">>
    /\ (last.op = "persist_exchange_currency_pairs"
        /\ <<"kraken", "btc", "USD">> \in Range(Get(last.arg[1]))) => Len(db.pairs) = 1

(***************************************************************************)
(* SpecSessions: the sessions a DatabaseHandler call opens.  A session is  *)
(* recorded by how its transaction ended ("commit", "rollback", or "none": *)
(* neither was called) and by whether close() was called on it.            *)
(***************************************************************************)
Session(ended, closed) == [ended |-> ended, closed |-> closed]

\* session_scope (lines 86-97): commit when the block is left normally, rollback
\* when an exception leaves it, close in either case.
session_scope(raised) == Session(IF raised THEN "rollback" ELSE "commit", TRUE)

\* persist_exchange (lines 347-353): the session is made first; None.upper() raises
\* at line 348 and no handler is around it, so lines 349-353 are not reached.
\* Without an insert the session is closed with neither commit nor rollback.
persist_exchange_session(d, exchange_name) ==
    IF exchange_name = None THEN Session("none", FALSE)
    ELSE IF get_exchange_id(d, exchange_name) = 0 THEN Session("commit", TRUE)
    ELSE Session("none", TRUE)

\* get_all_currency_pairs_from_exchange (lines 160-169): session, query, close.
get_all_session(exchange_name) == Session("none", exchange_name # None)

\* persist_exchange_currency_pairs (lines 366-411): no session for None;
\* otherwise try: commit, except: rollback, finally: close.
persist_pairs_sessions(d, currency_pairs) ==
    IF IsNone(currency_pairs) THEN <<>>
    ELSE << Session(IF Flush(PairLoop([d |-> d, pend |-> NoPending, err |-> FALSE],
                                      Get(currency_pairs), 1)).err
                    THEN "rollback" ELSE "commit", TRUE) >>

RECURSIVE TickerSessions(_, _, _)
\* The sessions of the persist_exchange_currency_pair calls that
\* get_exchange_currency_pair makes for the tickers from position i on (line 449).
TickerSessions(d, tickers, i) ==
    IF i > Len(tickers) THEN <<>>
    ELSE (IF tickers[i][1] = None \/ tickers[i][4] = None \/ tickers[i][5] = None
          THEN <<>>
          ELSE persist_pairs_sessions(
                   d, Some(<< <<tickers[i][1], tickers[i][4], tickers[i][5]>> >>)))
         \o TickerSessions(
                get_exchange_currency_pair(d, tickers[i][1], tickers[i][4], tickers[i][5]).d,
                tickers, i + 1)

\* persist_tickers (line 131): one session scope around the loop.
persist_tickers_sessions(d, tickers) ==
    <<session_scope(Len(tickers) = 0)>> \o TickerSessions(d, tickers, 1)

RECURSIVE RateSessions(_, _)
\* persist_historic_rates (lines 470-496): one session scope per rate; after the
\* scope the same session is committed and closed once more (489-490), after an
\* exception it is rolled back and closed once more (493, 496).
RateSessions(historic_rates, k) ==
    IF k > Len(historic_rates) THEN <<>>
    ELSE IF Len(historic_rates[k]) < 7 THEN <<session_scope(TRUE)>>
    ELSE <<session_scope(FALSE)>> \o RateSessions(historic_rates, k + 1)

\* A call that left the database r.d with the outcome r.out and opened sessions.
CalledWithSessions(op, arg, r, sessions) ==
    /\ UNCHANGED schedVars
    /\ db' = r.d
    /\ last' = Call(op, arg, <<>>, r.out) @@ [sessions |-> sessions]

PersistExchangeSession(exchange_name) ==
    CalledWithSessions("persist_exchange", <<exchange_name>>,
                       IF exchange_name = None THEN [d |-> db, out |-> "raised"]
                       ELSE [d |-> persist_exchange(db, exchange_name), out |-> "returned"],
                       <<persist_exchange_session(db, exchange_name)>>)

GetAllSession(exchange_name) ==
    CalledWithSessions("get_all_currency_pairs_from_exchange", <<exchange_name>>,
                       [d |-> db, out |-> IF exchange_name = None THEN "raised" ELSE "returned"],
                       <<get_all_session(exchange_name)>>)

\* get_exchange_id (lines 314-326): the query runs inside a session scope.
GetExchangeIdSession(exchange_name) ==
    CalledWithSessions("get_exchange_id", <<exchange_name>>,
                       [d |-> db, out |-> IF exchange_name = None THEN "raised" ELSE "returned"],
                       <<session_scope(exchange_name = None)>>)

PersistPairsSessions(currency_pairs) ==
    CalledWithSessions("persist_exchange_currency_pairs", <<currency_pairs>>,
                       [d |-> persist_exchange_currency_pairs(db, currency_pairs),
                        out |-> "returned"],
                       persist_pairs_sessions(db, currency_pairs))

PersistTickersSessions(queried_currency_pairs, tickers) ==
    /\ Len(db.tickers) + Len(tickers) <= MaxTickers
    /\ CalledWithSessions("persist_tickers", <<queried_currency_pairs, tickers>>,
                          persist_tickers(db, queried_currency_pairs, tickers),
                          persist_tickers_sessions(db, tickers))

PersistRatesSessions(historic_rates) ==
    CalledWithSessions("persist_historic_rates", <<historic_rates>>,
                       persist_historic_rates(db, historic_rates),
                       RateSessions(historic_rates, 1))

SessionNames == {"kraken", "KRAKEN", None}

SessionPairs ==
    { <<"kraken", "btc", "USD">>, <<"kraken", "usd", "USD">>, <<"BINANCE", "eth", "btc">> }

SessionTickers ==
    { <<"kraken", 10, 11, "btc", "USD", 100, 101, 99, 102, 5000>>,
      <<None, 10, 12, "btc", "USD", 1, 1, 1, 1, 1>> }

SessionRates == { <<1, 10, 1, 2, 0, 1, 9>>, <<1>> }

InitSessions ==
    /\ db = EmptyDb
    /\ last = NoCall @@ [sessions |-> <<>>]
    /\ NoScheduler

NextSessions ==
    \/ \E exchange_name \in SessionNames : PersistExchangeSession(exchange_name)
    \/ \E exchange_name \in SessionNames : GetAllSession(exchange_name)
    \/ \E exchange_name \in SessionNames : GetExchangeIdSession(exchange_name)
    \/ \E currency_pairs \in {NoneList} \cup {Some(l) : l \in SeqsUpTo(SessionPairs, MaxLen)} :
           PersistPairsSessions(currency_pairs)
    \/ \E ids \in {{}, 1..Len(db.pairs)}, tickers \in SeqsUpTo(SessionTickers, 1) :
           PersistTickersSessions(Ascending(ids), tickers)
    \/ \E historic_rates \in SeqsUpTo(SessionRates, MaxLen) :
           PersistRatesSessions(historic_rates)

SpecSessions == InitSessions /\ [][NextSessions]_vars

\* C20: whether the last call returned or raised, every session it opened has
\* been closed.
C20_NoSessionLeftOpen ==
    \A i \in 1..Len(last.sessions) : last.sessions[i].closed

\* Every session of the last call was made inside session_scope or inside a
\* try with a finally: committed or rolled back, then closed.
ScopedSessionsEnded ==
    last.op \in {"get_exchange_id", "persist_exchange_currency_pairs", "persist_tickers",
                 "persist_historic_rates"}
        => \A i \in 1..Len(last.sessions) :
               last.sessions[i].closed /\ last.sessions[i].ended \in {"commit", "rollback"}

(***************************************************************************)
(* SpecRace: persist_exchange_currency_pairs and persist_tickers on a      *)
(* store that another writer (a second instance of the program) commits to *)
(* between the queries of a call (lines 379-398) and its commit (403).     *)
(* While a call is in flight last.out is "pending" and last.s holds the    *)
(* session: the objects added to it and not yet flushed.                   *)
(***************************************************************************)
RaceTuples ==
    { <<"kraken", "btc", "USD">>, <<"kraken", "eth", "USD">>, <<"BINANCE", "btc", "eth">> }

RaceTicker(cp) == <<cp[1], 10, 11, cp[2], cp[3], 100, 101, 99, 102, 5000>>

InFlight == last.out = "pending"

\* lines 367-401 for a list of one tuple: the queries, and the new objects added.
PairsQueried(cp) ==
    /\ ~InFlight
    /\ UNCHANGED <<db, schedVars>>
    /\ last' = Call("persist_exchange_currency_pairs", <<Some(<<cp>>)>>, <<>>, "pending")
                 @@ [s |-> PairStep([d |-> db, pend |-> NoPending, err |-> FALSE], cp),
                     conflict |-> FALSE]

\* persist_tickers with one ticker, up to the same point of the nested
\* persist_exchange_currency_pair call (line 449).
TickerPairQueried(queried_currency_pairs, cp) ==
    /\ ~InFlight
    /\ Len(db.tickers) < MaxTickers
    /\ UNCHANGED <<db, schedVars>>
    /\ last' = Call("persist_tickers", <<queried_currency_pairs, <<RaceTicker(cp)>> >>, <<>>,
                    "pending")
                 @@ [s |-> PairStep([d |-> db, pend |-> NoPending, err |-> FALSE], cp),
                     conflict |-> FALSE]

\* The other writer commits a call of its own.
OtherWriter(d) ==
    /\ InFlight
    /\ d # db
    /\ db' = d
    /\ UNCHANGED <<last, schedVars>>

\* session.commit() (line 403) on the store as it is now: f is the flushed
\* session.  An IntegrityError is caught, the session rolled back (406-409).
Committed(f) == IF f.err THEN db ELSE f.d

PairsCommitted(f) ==
    /\ InFlight
    /\ last.op = "persist_exchange_currency_pairs"
    /\ UNCHANGED schedVars
    /\ db' = Committed(f)
    /\ last' = [last EXCEPT !.out = "returned", !.conflict = f.err]

\* lines 450-458 and 136-151: the pair is read again after the nested call, the
\* Ticker added if the pair was found and is a queried one, the scope committed.
TickersCommitted(f, ticker) ==
    /\ InFlight
    /\ last.op = "persist_tickers"
    /\ UNCHANGED schedVars
    /\ db' = TickerScopeEnds(
                 AddTicker([d |-> Committed(f), added |-> <<>>, err |-> FALSE], last.arg[1], ticker,
                           QueryPair(Committed(f), ticker[1], ticker[4], ticker[5])),
                 <<ticker>>).d
    /\ last' = [last EXCEPT !.out = "returned", !.conflict = f.err]

InitRace ==
    /\ db = EmptyDb
    /\ last = NoCall @@ [s |-> [d |-> EmptyDb, pend |-> NoPending, err |-> FALSE],
                         conflict |-> FALSE]
    /\ NoScheduler

NextRace ==
    \/ \E cp \in RaceTuples : PairsQueried(cp)
    \/ \E cp \in RaceTuples : TickerPairQueried(Ascending(1..Len(db.pairs)), cp)
    \/ \E exchange_name \in {"kraken", "BINANCE"} : OtherWriter(persist_exchange(db, exchange_name))
    \/ \E cp \in RaceTuples : OtherWriter(persist_exchange_currency_pairs(db, Some(<<cp>>)))
    \/ PairsCommitted(Flush([last.s EXCEPT !.d = db]))
    \/ TickersCommitted(Flush([last.s EXCEPT !.d = db]), last.arg[2][1])

SpecRace == InitRace /\ [][NextRace]_vars

\* The triple the last call was to resolve.
RaceTriple ==
    IF last.op = "persist_tickers"
    THEN <<last.arg[2][1][1], last.arg[2][1][4], last.arg[2][1][5]>>
    ELSE Get(last.arg[1])[1]

\* C21: a call whose insert met a row the other writer had created in the
\* meantime returns without an exception, and the pair it was to resolve is stored.
C21_ConflictResolvedByReread ==
    (last.op # "none" /\ ~InFlight /\ last.conflict) =>
        /\ last.out = "returned"
        /\ RowsOfTriple(db, RaceTriple) # {}

\* The half of C21 the code keeps: the conflict reaches no caller as an exception,
\* and the rows of the other writer stay.
ConflictSwallowed ==
    (last.op # "none" /\ ~InFlight /\ last.conflict) => last.out = "returned"

(***************************************************************************)
(* SpecIngest: persist_tickers with tickers of pairs not seen before, of a *)
(* pair of one currency with itself, and with tuples that end after and    *)
(* before the second currency.                                             *)
(***************************************************************************)
IngestTickers ==
    { <<"kraken", 10, 11, "btc", "USD", 100, 101, 99, 102, 5000>>,
      <<"KRAKEN", 10, 12, "usd", "USD", 7, 8, 6, 9, 70>>,
      <<"kraken", 10, 12, None, "USD", 1, 1, 1, 1, 1>>,
      <<"kraken", 20, 21, "btc", "USD">>,
      <<"kraken", 20, 21, "btc">> }

InitIngest ==
    /\ db = EmptyDb
    /\ last = NoCall
    /\ NoScheduler

NextIngest ==
    \E ids \in SUBSET (1..Len(db.pairs)), tickers \in SeqsUpTo(IngestTickers, MaxLen) :
        PersistTickers(Ascending(ids), tickers)

SpecIngest == InitIngest /\ [][NextIngest]_vars

TickersReturned == TickersPersisted /\ last.out = "returned"

CompleteTicker(ticker) == ticker[1] # None /\ ticker[4] # None /\ ticker[5] # None

RECURSIVE RowsDue(_, _, _, _)
\* The Ticker rows due for the tickers from position k on: one for each tuple
\* whose resolved pair is a selected one, with the fields of the tuple.
RowsDue(d, selected_pairs, tickers, k) ==
    IF k > Len(tickers) THEN <<>>
    ELSE (IF ResolvedPair(d, tickers[k]) \in Range(selected_pairs)
          THEN << [exchange_pair_id |-> ResolvedPair(d, tickers[k]),
                   start_time |-> tickers[k][2], response_time |-> tickers[k][3],
                   last_price |-> tickers[k][6], last_trade |-> tickers[k][7],
                   best_ask |-> tickers[k][8], best_bid |-> tickers[k][9],
                   daily_volume |-> tickers[k][10]] >>
          ELSE <<>>)
         \o RowsDue(d, selected_pairs, tickers, k + 1)

\* C23: the Ticker rows a persist_tickers call inserted are, in the order of the
\* tuples, exactly one row for each tuple whose resolved pair is a selected one,
\* with the id of that pair and the seven values of the tuple.
C23_OneRowPerSelectedTicker ==
    TickersReturned => NewTickers = RowsDue(db, last.arg[1], last.arg[2], 1)

\* Two tickers of one selected pair were given and two rows inserted.
C23_Witness ==
    /\ TickersReturned
    /\ Len(last.arg[2]) = 2
    /\ Len(last.arg[2][1]) = 10
    /\ last.arg[2][1] = last.arg[2][2]
    /\ ResolvedPair(db, last.arg[2][1]) \in Range(last.arg[1])
    /\ Len(NewTickers) = 2
    /\ NewTickers[1].best_ask = 99 /\ NewTickers[1].best_bid = 102

\* C27: a persist_tickers call that raised left the Ticker table as it was.
C27_NoTickerOfFailedCall ==
    (TickersPersisted /\ last.out = "raised") => db.tickers = last.pre.tickers

\* The call raised at its second tuple, after the Ticker of its first tuple, of
\* a selected pair, had been added to the session.
C27_Witness ==
    /\ TickersPersisted /\ last.out = "raised"
    /\ Len(last.arg[2]) = 2
    /\ Len(last.arg[2][1]) = 10 /\ Len(last.arg[2][2]) = 5
    /\ ResolvedPair(db, last.arg[2][1]) \in Range(last.arg[1])
    /\ db.tickers = last.pre.tickers

(***************************************************************************)
(* persist_historic_rates that fails in the middle of its list (SpecRates).*)
(***************************************************************************)
\* The position of the first tuple of the list that is too short to be read,
\* 0 if there is none.
FirstShort(historic_rates) ==
    IF \E k \in 1..Len(historic_rates) : Len(historic_rates[k]) < 7
    THEN CHOOSE k \in 1..Len(historic_rates) :
             /\ Len(historic_rates[k]) < 7
             /\ \A j \in 1..(k - 1) : Len(historic_rates[j]) >= 7
    ELSE 0

RECURSIVE RatesBefore(_, _, _, _)
\* The HistoricRate table rows after the tuples i..(k - 1) were stored, each
\* unless its key is in the table.
RatesBefore(rows, historic_rates, i, k) ==
    IF i >= k THEN rows
    ELSE RatesBefore(
             IF \E n \in 1..Len(rows) :
                    /\ rows[n].exchange_pair_id = historic_rates[i][1]
                    /\ rows[n].timestamp = historic_rates[i][2]
             THEN rows
             ELSE Append(rows, RateRow(historic_rates[i])),
             historic_rates, i + 1, k)

\* C28: a call that failed at its k-th tuple returned, the rows of the tuples
\* before k are stored, and nothing else was added.
C28_RatesBeforeFailureKept ==
    (RatesPersisted /\ FirstShort(last.arg[1]) # 0) =>
        /\ last.out = "returned"
        /\ db.historic_rates = RatesBefore(last.pre.historic_rates, last.arg[1], 1,
                                           FirstShort(last.arg[1]))

\* The call failed at its second tuple and the row of its first tuple is stored.
C28_Witness ==
    /\ RatesPersisted
    /\ Len(last.arg[1]) = 2
    /\ FirstShort(last.arg[1]) = 2
    /\ last.out = "returned"
    /\ Len(db.historic_rates) = Len(last.pre.historic_rates) + 1

(***************************************************************************)
(* The identity tables over the DatabaseHandler calls (SpecSessions).      *)
(***************************************************************************)
\* A row's id is its position: a table that only grows, with no row deleted or
\* changed, has the table before as a prefix.
IsPrefix(before, after) ==
    Len(before) <= Len(after) /\ SubSeq(after, 1, Len(before)) = before

\* C29: no step deletes or changes a row of the Exchange, Currency or
\* ExchangeCurrencyPair table; the tables only grow.
C29_IdentityRowsOnlyGrow ==
    [][/\ IsPrefix(db.exchanges, db'.exchanges)
       /\ IsPrefix(db.currencies, db'.currencies)
       /\ IsPrefix(db.pairs, db'.pairs)]_vars

\* A call on a store that held a pair added an exchange, a currency and a pair.
C29_Witness ==
    /\ Len(last.pre.pairs) >= 1
    /\ Len(db.exchanges) > Len(last.pre.exchanges)
    /\ Len(db.currencies) > Len(last.pre.currencies)
    /\ Len(db.pairs) > Len(last.pre.pairs)

(***************************************************************************)
(* The pair resolution of validate_job, step by step (SpecSched).          *)
(***************************************************************************)
\* The coroutine t takes a step of get_currency_pairs: it begins validate_job,
\* or the request it was suspended in is answered.
ResolutionStep(t) ==
    /\ t \in 1..Len(tasks) /\ Len(tasks') = Len(tasks)
    /\ tasks'[t] # tasks[t]
    /\ \/ tasks[t].pc = "created" /\ ~validated
       \/ tasks[t].pc = "request_currency_pairs"

Suspended(task) == task.pc = "request_currency_pairs"

\* The index in job_list of the job the step began in (0: before the first)
\* and of the job it ended in (past the last: get_currency_pairs returned).
FromJob(t) == IF Suspended(tasks[t]) THEN tasks[t].loc.ji ELSE 0

ToJob(t) == IF Suspended(tasks'[t]) THEN tasks'[t].loc.ji ELSE Len(job_list) + 1

\* The <<job, exchange>> the step went past without a request: the rest of the
\* job it began in, the jobs in between, the exchanges of the job it ended in
\* before the one it is suspended at.
PassedInStep(t) ==
    (IF Suspended(tasks[t])
     THEN { <<tasks[t].loc.job, tasks[t].loc.exchanges[e]>> :
              e \in (tasks[t].loc.ei + 1) ..
                    (IF ToJob(t) = FromJob(t) THEN tasks'[t].loc.ei - 1
                     ELSE Len(tasks[t].loc.exchanges)) }
     ELSE {})
    \cup UNION { { <<job_list[ji], jobs[job_list[ji]].exchanges_with_pairs[e][1]>> :
                     e \in 1..Len(jobs[job_list[ji]].exchanges_with_pairs) } :
                 ji \in (FromJob(t) + 1)..(ToJob(t) - 1) }
    \cup (IF Suspended(tasks'[t]) /\ ToJob(t) > FromJob(t)
          THEN { <<tasks'[t].loc.job, tasks'[t].loc.exchanges[e]>> :
                   e \in 1..(tasks'[t].loc.ei - 1) }
          ELSE {})

StoreHoldsPairs(d, exchange) == RowsOfExchange(d, exchange) # {}

\* After the step the job's entry of the exchange is the result of the selector
\* query with the job's parameters (an empty entry may have been pruned since).
EntrySet(job, exchange) ==
    LET dict  == jobs'[job].exchanges_with_pairs
        found == get_exchanges_currency_pairs(db', exchange,
                     jobs[job].job_params.currency_pairs,
                     jobs[job].job_params.first_currencies,
                     jobs[job].job_params.second_currencies)
    IN  IF DictIndex(dict, exchange, 1) # 0
        THEN dict[DictIndex(dict, exchange, 1)][2] = found
        ELSE found = <<>>

\* C24: in every step of a validation, an exchange the step went past without a
\* request belongs to a job without the refresh flag and has pairs in the
\* store; the exchange the step suspends at for request_currency_pairs belongs
\* to a job with the flag or has no pair in the store; and the entries of the
\* exchange just answered and of those gone past are the selector query's result.
C24_RequestIffFlagOrNoPairs ==
    [][\A t \in 1..Len(tasks) :
          ResolutionStep(t) =>
              /\ \A p \in PassedInStep(t) :
                    /\ ~jobs[p[1]].job_params.update_cp
                    /\ StoreHoldsPairs(db', p[2])
                    /\ EntrySet(p[1], p[2])
              /\ Suspended(tasks'[t]) =>
                    \/ jobs[tasks'[t].loc.job].job_params.update_cp
                    \/ ~StoreHoldsPairs(db', tasks'[t].loc.exchanges[tasks'[t].loc.ei])
              /\ Suspended(tasks[t]) =>
                    EntrySet(tasks[t].loc.job, tasks[t].loc.exchanges[tasks[t].loc.ei])]_vars

\* The first job has no refresh flag; its exchange kraken had pairs in the store,
\* was gone past and has its entry, and the coroutine is suspended in the request
\* to its exchange BINANCE, which has no pair in the store.
C24_Witness ==
    /\ Len(tasks) >= 1
    /\ Suspended(tasks[1])
    /\ tasks[1].loc.job = 1 /\ tasks[1].loc.ei = 2
    /\ ~jobs[1].job_params.update_cp
    /\ jobs[1].exchanges_with_pairs[1] = <<"kraken", <<1>> >>
    /\ ~StoreHoldsPairs(db, "BINANCE")

(***************************************************************************)
(* SpecResponses: get_job_done after its gather, on responses that carry   *)
(* any exchange name: that of an exchange of the job in either case, or    *)
(* that of no exchange of the job.                                         *)
(***************************************************************************)
ResponseNames == {"kraken", "KRAKEN", "BINANCE", "bitfinex"}

ResponseDicts ==
    { << <<"kraken", <<1>> >> >>,
      << <<"kraken", <<1>> >>, <<"BINANCE", <<2>> >> >>,
      << <<"BINANCE", <<2>> >>, <<"KRAKEN", <<3>> >> >> }

Responses(n) ==
    [1..n -> [exchange : ResponseNames, pairs : {<<1>>},
              state : {"falsy", "tuples", "no_tuples"}]]

\* A validated Scheduler with one job, in its round, get_job_done suspended in
\* its gather with every request answered.
InitResponses ==
    /\ db = FullDb
    /\ last = NoCall
    /\ job_list = <<1>>
    /\ validated = TRUE
    /\ proc = "round"
    /\ hist = [NoHist EXCEPT !.validations = 1, !.rounds = 1, !.requested = TRUE]
    /\ \E dict \in ResponseDicts :
          /\ jobs = << [NewJob("ticker", <<>>, FALSE) EXCEPT !.exchanges_with_pairs = dict] >>
          /\ \E responses \in Responses(Len(dict)) :
                tasks = << [NewTask(1) EXCEPT !.pc = "gather", !.requests = responses,
                                              !.completed = [i \in 1..Len(dict) |-> i]] >>

NextResponses == GatherEnds(1)

SpecResponses == InitResponses /\ [][NextResponses]_vars

\* The positions of the exchanges of the job whose name is the name given,
\* ignoring case.
NamedExchanges(dict, exchange_name) ==
    { i \in 1..Len(dict) : Upper(dict[i][1]) = Upper(exchange_name) }

RECURSIVE StoreCallsDue(_, _, _)
\* The exchanges the store is to be invoked with for the responses from
\* position i on: for each truthy response with the name of an exchange of the
\* job whose formatting gives tuples, the first exchange of that name.
StoreCallsDue(dict, responses, i) ==
    IF i > Len(responses) THEN <<>>
    ELSE (IF /\ responses[i].state = "tuples"
             /\ NamedExchanges(dict, responses[i].exchange) # {}
          THEN << dict[CHOOSE m \in NamedExchanges(dict, responses[i].exchange) :
                         \A n \in NamedExchanges(dict, responses[i].exchange) : m <= n][1] >>
          ELSE <<>>)
         \o StoreCallsDue(dict, responses, i + 1)

\* C25: a get_job_done that is done invoked the store exactly for the truthy
\* responses that carry the name (ignoring case) of an exchange of the job and
\* format to tuples, each time with the exchange matched; for no other response.
C25_StoreInvokedIffMatched ==
    \A t \in 1..Len(tasks) :
        tasks[t].pc = "done" =>
            tasks[t].persisted =
                StoreCallsDue(jobs[tasks[t].job].exchanges_with_pairs, tasks[t].requests, 1)

\* The job has kraken and BINANCE; the first response carries KRAKEN and tuples,
\* the second the name of no exchange of the job and tuples: the store was
\* invoked once, with kraken.
C25_Witness ==
    /\ Len(tasks) = 1 /\ tasks[1].pc = "done"
    /\ DictKeys(jobs[1].exchanges_with_pairs) = <<"kraken", "BINANCE">>
    /\ tasks[1].requests[1].exchange = "KRAKEN" /\ tasks[1].requests[1].state = "tuples"
    /\ tasks[1].requests[2].exchange = "bitfinex" /\ tasks[1].requests[2].state = "tuples"
    /\ tasks[1].persisted = <<"kraken">>

(***************************************************************************)
(* The fan-out and the barrier of get_job_done (SpecSched).                *)
(***************************************************************************)
\* The coroutine t issues its requests in this step.
FansOut(t) ==
    /\ t \in 1..Len(tasks) /\ Len(tasks') = Len(tasks)
    /\ tasks[t].pc # "gather" /\ tasks'[t].pc = "gather"

\* The coroutine t goes on to its responses in this step.
LeavesGather(t) ==
    /\ t \in 1..Len(tasks) /\ Len(tasks') = Len(tasks)
    /\ tasks[t].pc = "gather" /\ tasks'[t].pc = "done"

\* C26: the requests a get_job_done issues are one per key of the job's
\* exchanges_with_pairs, in the order of the keys, each with the pair list of
\* its key; no request is added later; and the responses are processed only
\* in a step before which none of the requests was pending.  (A step of start
\* makes the coroutines of the next round and is none of these.)
C26_OneRequestPerExchangeThenBarrier ==
    /\ [][\A t \in 1..Len(tasks) :
            hist'.rounds = hist.rounds =>
             /\ FansOut(t) =>
                   /\ Len(tasks'[t].requests) = Len(jobs'[tasks[t].job].exchanges_with_pairs)
                   /\ \A i \in 1..Len(tasks'[t].requests) :
                         /\ tasks'[t].requests[i].exchange =
                                jobs'[tasks[t].job].exchanges_with_pairs[i][1]
                         /\ tasks'[t].requests[i].pairs =
                                jobs'[tasks[t].job].exchanges_with_pairs[i][2]
                         /\ tasks'[t].requests[i].state = "pending"
             /\ (t \in 1..Len(tasks') /\ tasks[t].pc = "gather") =>
                   /\ Len(tasks'[t].requests) = Len(tasks[t].requests)
                   /\ \A i \in 1..Len(tasks[t].requests) :
                         /\ tasks'[t].requests[i].exchange = tasks[t].requests[i].exchange
                         /\ tasks'[t].requests[i].pairs = tasks[t].requests[i].pairs
             /\ LeavesGather(t) => Ended(t, "pending") = {}
             /\ (t \in 1..Len(tasks') /\ Len(tasks') = Len(tasks)
                 /\ tasks'[t].persisted # tasks[t].persisted) => LeavesGather(t)]_vars
    /\ [](\A t \in 1..Len(tasks) : tasks[t].persisted # <<>> => Ended(t, "pending") = {})

\* The job of three exchanges issued its three requests, each with its pair list,
\* and went on to the responses after the last of them had ended.
C26_Witness ==
    /\ Len(tasks) >= 1
    /\ tasks[1].pc = "done"
    /\ Len(tasks[1].requests) = 3
    /\ \A i \in 1..3 : tasks[1].requests[i].pairs # <<>>
    /\ tasks[1].completed = <<3, 1, 2>>
    /\ Len(tasks[1].persisted) = 2

(***************************************************************************)
(* SpecTimes: one get_job_done with a clock.  hist.now is the reading of   *)
(* datetime.utcnow(); the coroutine keeps its start_time and the calls of  *)
(* format_data it made; a request keeps the time it was issued at and the  *)
(* response_time its response carries (response[0]).                       *)
(***************************************************************************)
Tick ==
    /\ hist.now < MaxTime
    /\ hist' = [hist EXCEPT !.now = @ + 1]
    /\ UNCHANGED <<db, last, job_list, jobs, validated, proc, tasks>>

\* get_job_done up to its gather (lines 175-180): the clock is read (177),
\* then the requests are made.
JobBegins(t) ==
    /\ Running
    /\ tasks[t].pc = "created"
    /\ tasks' = [tasks EXCEPT ![t] =
                    [FanOut([Frame(t) EXCEPT !.task.start_time = hist.now]).task
                        EXCEPT !.requests = [i \in DOMAIN @ |->
                                               @[i] @@ [issued |-> hist.now, time |-> None]]]]
    /\ UNCHANGED <<db, last, job_list, jobs, validated, proc, hist>>

\* A request ends with a response that carries the time it arrived at.
ResponseArrives(t, k, state) ==
    /\ Running
    /\ k \in 1..Len(tasks[t].requests)
    /\ tasks[t].requests[k].state = "pending"
    /\ tasks' = [tasks EXCEPT ![t].requests[k].state = state,
                              ![t].requests[k].time = hist.now,
                              ![t].completed = Append(@, k)]
    /\ UNCHANGED <<db, last, job_list, jobs, validated, proc, hist>>

\* A format loop that takes the start_time of each call from its response.
RECURSIVE FormatLoopStartPerResponse(_, _, _, _)
FormatLoopStartPerResponse(dict, responses, start_time, k) ==
    IF k > Len(responses) THEN <<>>
    ELSE (IF /\ responses[k].state # "falsy"
             /\ FindExchange(dict, responses[k].exchange, 1) # None
          THEN << [k |-> k, start_time |-> responses[k].time, time |-> responses[k].time] >>
          ELSE <<>>)
         \o FormatLoopStartPerResponse(dict, responses, start_time, k + 1)

RECURSIVE FormatLoop(_, _, _, _)
\* The calls of format_data of the loop over the responses (lines 182-197, from
\* position k on): start_time is the one read at line 177, time is response[0].
FormatLoop(dict, responses, start_time, k) ==
    IF k > Len(responses) THEN <<>>
    ELSE (IF /\ responses[k].state # "falsy"
             /\ FindExchange(dict, responses[k].exchange, 1) # None
          THEN << [k |-> k, start_time |-> start_time, time |-> responses[k].time] >>
          ELSE <<>>)
         \o FormatLoop(dict, responses, start_time, k + 1)

\* get_job_done after its gather, with the calls of format_data recorded.
ResponsesFormatted(t) ==
    /\ Running
    /\ tasks[t].pc = "gather"
    /\ Ended(t, "pending") = {}
    /\ tasks' = [tasks EXCEPT
                    ![t].pc = "done",
                    ![t].formatted = FormatLoop(jobs[tasks[t].job].exchanges_with_pairs,
                                                tasks[t].requests, tasks[t].start_time, 1),
                    ![t].persisted = ResponseLoop(jobs[tasks[t].job].exchanges_with_pairs,
                                                  tasks[t].requests, 1)]
    /\ UNCHANGED <<db, last, job_list, jobs, validated, proc, hist>>

\* A validated Scheduler with one job of two exchanges, in its round, the
\* coroutine of the job not yet begun.
InitTimes ==
    /\ db = FullDb
    /\ last = NoCall
    /\ job_list = <<1>>
    /\ jobs = << [NewJob("ticker", <<>>, FALSE)
                    EXCEPT !.exchanges_with_pairs = << <<"kraken", <<1>> >>, <<"BINANCE", <<2>> >> >>] >>
    /\ validated = TRUE
    /\ proc = "round"
    /\ hist = [NoHist EXCEPT !.validations = 1, !.rounds = 1] @@ [now |-> 0]
    /\ tasks = << NewTask(1) @@ [start_time |-> None, formatted |-> <<>>] >>

NextTimes ==
    \/ Tick
    \/ JobBegins(1)
    \/ \E k \in 1..Len(tasks[1].requests), state \in {"falsy", "tuples", "no_tuples"} :
          ResponseArrives(1, k, state)
    \/ ResponsesFormatted(1)

SpecTimes == InitTimes /\ [][NextTimes]_vars

\* C30: in a get_job_done that is done, format_data was called once for each
\* truthy response, every call with the one start_time of the get_job_done,
\* which is no later than the time any of its requests was issued at, and with
\* the response_time its own response carries.
C30_OneStartTimePerFanOut ==
    \A t \in 1..Len(tasks) :
        tasks[t].pc = "done" =>
            /\ {tasks[t].formatted[c].k : c \in 1..Len(tasks[t].formatted)}
                   = {k \in 1..Len(tasks[t].requests) : tasks[t].requests[k].state # "falsy"}
            /\ \A c \in 1..Len(tasks[t].formatted) :
                  /\ tasks[t].formatted[c].start_time = tasks[t].start_time
                  /\ tasks[t].formatted[c].time = tasks[t].requests[tasks[t].formatted[c].k].time
            /\ \A k \in 1..Len(tasks[t].requests) :
                  tasks[t].start_time <= tasks[t].requests[k].issued

\* Both responses were formatted; they arrived at two times, both after the
\* start_time the two calls were given.
C30_Witness ==
    /\ tasks[1].pc = "done"
    /\ Len(tasks[1].formatted) = 2
    /\ tasks[1].formatted[1].start_time = 1 /\ tasks[1].formatted[2].start_time = 1
    /\ tasks[1].formatted[1].time = 3 /\ tasks[1].formatted[2].time = 2

\* ---------------------------------------------------------------------------
\* C31 on SpecValidate: what the pruning of validate_job leaves in place.
\* ---------------------------------------------------------------------------
\* The entries of a dictionary whose pair list is not empty, in their order.
NonEmptyEntries(dict) == SelectSeq(dict, LAMBDA entry : entry[2] # <<>>)

\* The jobs of a list that had an exchange with pairs in the dictionaries js.
JobsWithPairs(list, js) ==
    SelectSeq(list, LAMBDA job : NonEmptyEntries(js[job].exchanges_with_pairs) # <<>>)

\* C31: whatever way validate_job ends, every entry with a non-empty pair
\* list is still an entry of its job afterwards, with the same pair list, and
\* the jobs that had such an entry are still in job_list, in the order they had.
C31_PruningKeepsNonEmpty ==
    [][ /\ \A job \in 1..Len(jobs) :
              NonEmptyEntries(jobs'[job].exchanges_with_pairs)
                  = NonEmptyEntries(jobs[job].exchanges_with_pairs)
        /\ JobsWithPairs(job_list', jobs) = JobsWithPairs(job_list, jobs) ]_vars

\* validate_job returned after it removed job 1, whose dictionary was empty;
\* job 2 and its entry with pairs are what is left.
C31_Witness ==
    /\ Len(hist.ended) = 1 /\ hist.ended[1].out = "return"
    /\ Len(jobs) = 2
    /\ job_list = <<2>>
    /\ jobs[1].exchanges_with_pairs = <<>>
    /\ jobs[2].exchanges_with_pairs = << <<"kraken", <<1>> >> >>

InitDispatch ==
    /\ db \in {KrakenDb, FullDb}
    /\ last = NoCall
    /\ job_list = <<1, 2>>
    /\ \E first \in {<<>>, <<"kraken">>}, second \in {<<>>, <<"BINANCE">>} :
          jobs = << NewJob("ticker", first, FALSE), NewJob("ticker", second, FALSE) >>
    /\ validated = FALSE
    /\ proc = "idle"
    /\ tasks = <<>>
    /\ hist = NoHist

SpecDispatch == InitDispatch /\ [][NextSched]_vars

\* The coroutine has gone through lines 66-70 of run: determine_task was
\* called and the request function was called or failed to be.
Dispatched(task) ==
    \/ task.pc \in {"gather", "done"}
    \/ task.pc = "raised" /\ task.cause \in {"AttributeError", "TypeError", "request"}

\* C33: a step in which a coroutine of start dispatches its job leaves the
\* job a member of job_list.
C33_DispatchedJobsAreListed ==
    [][ \A t \in DOMAIN tasks \cap DOMAIN tasks' :
            (~Dispatched(tasks[t]) /\ Dispatched(tasks'[t]))
                => tasks'[t].job \in Range(job_list') ]_vars

\* ---------------------------------------------------------------------------
\* C34 on SpecTickers, C35 on SpecRates: the calls with nothing to persist.
\* ---------------------------------------------------------------------------
\* C34: a persist_tickers call with no ticker returns and leaves the store as
\* it was.
C34_NoTickerReturns ==
    (last.op = "persist_tickers" /\ last.arg[2] = <<>>)
        => (last.out = "returned" /\ db = last.pre)

\* C35: a persist_historic_rates call with no rate returns and leaves the
\* store as it was.
C35_NoRateReturns ==
    (last.op = "persist_historic_rates" /\ last.arg[1] = <<>>)
        => (last.out = "returned" /\ db = last.pre)

\* ---------------------------------------------------------------------------
\* C36 on SpecIngest: what a persist_tickers call that fails has committed.
\* ---------------------------------------------------------------------------
\* The tuple raises in its iteration: it ends before the second currency, or
\* it ends before the daily volume and its pair is a queried one.
TickerRaises(d, queried_currency_pairs, ticker) ==
    \/ Len(ticker) < 5
    \/ Len(ticker) < 10 /\ ResolvedPair(d, ticker) \in Range(queried_currency_pairs)

\* The loop came to resolve the pair of the tuple at position k.
TickerResolved(d, queried_currency_pairs, tickers, k) ==
    /\ Len(tickers[k]) >= 5
    /\ \A j \in 1..(k - 1) : ~TickerRaises(d, queried_currency_pairs, tickers[j])

Read(op, arg, name, res) ==
    /\ UNCHANGED schedVars
    /\ db' = db
    /\ last' = IF name = None THEN Call(op, arg, None, "raised")
               ELSE Call(op, arg, res, "returned")

\* A get_exchange_id that stores the exchange it does not find.
GetExchangeIdOrCreate(exchange_name) ==
    /\ UNCHANGED schedVars
    /\ exchange_name # None
    /\ db' = persist_exchange(db, exchange_name)
    /\ last' = Call("get_exchange_id", <<exchange_name>>, get_exchange_id(db', exchange_name),
                    "returned")

GetExchangeId(exchange_name) ==
    Read("get_exchange_id", <<exchange_name>>, exchange_name,
         IF exchange_name = None THEN 0 ELSE get_exchange_id(db, exchange_name))

GetCurrencyId(currency_name) ==
    Read("get_currency_id", <<currency_name>>, currency_name,
         IF currency_name = None THEN 0 ELSE get_currency_id(db, currency_name))

GetAllCurrencyPairsFromExchange(exchange_name) ==
    Read("get_all_currency_pairs_from_exchange", <<exchange_name>>, exchange_name,
         IF exchange_name = None THEN <<>>
         ELSE get_all_currency_pairs_from_exchange(db, exchange_name))

GetCurrencyPairs(exchange_name, currency_pairs) ==
    Read("get_currency_pairs", <<exchange_name, currency_pairs>>, "",
         get_currency_pairs(db, exchange_name, currency_pairs))

GetCurrencyPairsWithFirstCurrency(exchange_name, currency_names) ==
    Read("get_currency_pairs_with_first_currency", <<exchange_name, currency_names>>, "",
         get_currency_pairs_with_first_currency(db, exchange_name, currency_names))

GetCurrencyPairsWithSecondCurrency(exchange_name, currency_names) ==
    Read("get_currency_pairs_with_second_currency", <<exchange_name, currency_names>>, "",
         get_currency_pairs_with_second_currency(db, exchange_name, currency_names))

\* Names of an exchange that is stored, of one that is not, and no name.
ReadExchanges == {"kraken", "bitfinex", None}

\* Names of currencies that are stored and of one that is not.
ReadCurrencies == {"btc", "USD", "xrp"}

ReadTuples == { <<"KRAKEN", "BTC", "USD">>, <<"KRAKEN", "ETH", "USD">>, <<"BINANCE", "BTC", "USD">> }

InitReads ==
    /\ db = EmptyDb
    /\ last = NoCall
    /\ NoScheduler

NextReads ==
    \/ \E cp \in ReadTuples : PersistPairs(Some(<<cp>>))
    \/ \E exchange_name \in ReadExchanges : GetExchangeId(exchange_name)
    \/ \E currency_name \in ReadCurrencies \cup {None} : GetCurrencyId(currency_name)
    \/ \E exchange_name \in ReadExchanges : GetAllCurrencyPairsFromExchange(exchange_name)
    \/ \E exchange_name \in ReadExchanges, first \in ReadCurrencies :
          GetCurrencyPairs(exchange_name, Some(<<[first |-> first, second |-> "usd"]>>))
    \/ \E exchange_name \in ReadExchanges, currency_name \in ReadCurrencies :
          GetCurrencyPairsWithFirstCurrency(exchange_name, Some(<<currency_name>>))
    \/ \E exchange_name \in ReadExchanges, currency_name \in ReadCurrencies :
          GetCurrencyPairsWithSecondCurrency(exchange_name, Some(<<currency_name>>))
    \/ \E exchange_name \in ReadExchanges, first_currencies \in {NoneList, Some(<<"xrp">>), Some(<<"btc">>)} :
          GetExchangesCurrencyPairs(exchange_name, NoneList, first_currencies, Some(<<"usd">>))

SpecReads == InitReads /\ [][NextReads]_vars

QueryOps ==
    {"get_exchanges_currency_pairs", "get_currency_pairs", "get_currency_pairs_with_first_currency",
     "get_currency_pairs_with_second_currency", "get_all_currency_pairs_from_exchange",
     "get_exchange_id", "get_currency_id"}

\* The name is the name (in any case) of no row of the table.
NotStored(tbl, name) == \A i \in 1..Len(tbl) : tbl[i] # Upper(name)

\* C37: a call of one of the seven query methods leaves the database as it
\* was; with the name of an exchange that is not stored the methods that
\* return pairs return the empty list and get_exchange_id returns None, and
\* get_currency_id returns None for a currency that is not stored.
C37_QueriesChangeNothing ==
    last.op \in QueryOps =>
        /\ db = last.pre
        /\ (last.out = "returned" /\ last.arg[1] # None) =>
              /\ (last.op = "get_currency_id" /\ NotStored(db.currencies, last.arg[1]))
                    => last.res = 0
              /\ (last.op = "get_exchange_id" /\ NotStored(db.exchanges, last.arg[1]))
                    => last.res = 0
              /\ (last.op \notin {"get_currency_id", "get_exchange_id"}
                  /\ NotStored(db.exchanges, last.arg[1]))
                    => last.res = <<>>

\* The first currencies of an exchange that is not stored were asked for on a
\* store that holds pairs of that currency: nothing is returned, the three
\* pairs are in place.
C37_Witness ==
    /\ last.op = "get_currency_pairs_with_first_currency"
    /\ last.arg = <<"bitfinex", Some(<<"btc">>)>>
    /\ last.res = <<>>
    /\ Len(db.pairs) = 3
    /\ Len(db.exchanges) = 2

(***************************************************************************)
(* SpecMain: the loop of main.py (lines 41-48) around asyncio.run(main()). *)
(* proc is the position of the program: "loop" at the head of the while,   *)
(* "round" in asyncio.run(main()), "returned" after it, "pause" in         *)
(* time.sleep(300), "ended" after the except clause of line 47.  tasks     *)
(* holds the one gather of main (line 31), hist.rounds the rounds begun.   *)
(***************************************************************************)
\* The names bound in the module main.py: its imports (lines 1-8) and main.
MainNames ==
    {"asyncio", "os", "psycopg2", "time", "DatabaseHandler", "Exchange", "metadata",
     "read_config", "yaml_loader", "get_exchange_names", "main"}

\* The exchanges get_exchange_names finds.
MainExchanges == <<"kraken", "BINANCE", "BITFINEX">>

\* asyncio.run(main()) begins (line 44): main up to its gather (lines 21-31),
\* one request per exchange.
MainBegins ==
    /\ proc = "loop"
    /\ hist.rounds < MaxRounds
    /\ proc' = "round"
    /\ tasks' = << [NewTask(0) EXCEPT
                      !.pc = "gather",
                      !.requests = [i \in 1..Len(MainExchanges) |->
                                      [exchange |-> MainExchanges[i], pairs |-> <<>>,
                                       state |-> "pending"]]] >>
    /\ hist' = [hist EXCEPT !.rounds = @ + 1]
    /\ UNCHANGED <<db, last, job_list, jobs, validated>>

\* main after its gather (lines 31-38).  An exception of a request leaves
\* main; a response that is not falsy is handed to persist_tickers with one
\* argument, a TypeError (the method takes two, db_handler.py 99-101); with
\* falsy responses only main returns.  An exception leaves asyncio.run and
\* the while loop and is dropped at line 47.
MainEnds ==
    LET states == {tasks[1].requests[k].state : k \in 1..Len(tasks[1].requests)}
    IN  /\ proc = "round"
        /\ "raised" \in states \/ "pending" \notin states
        /\ proc' = IF states = {"falsy"} THEN "returned" ELSE "ended"
        /\ tasks' = [tasks EXCEPT ![1].pc = IF states = {"falsy"} THEN "done" ELSE "raised"]
        /\ UNCHANGED <<db, last, job_list, jobs, validated, hist>>

\* The loop from the position pc on to its next position: line 45 evaluates
\* datetime.datetime.now() for its print, a NameError if the module binds no
\* name datetime, dropped at line 47; the sleep of line 46 ends at the head
\* of the loop.
MainLoop(pc) ==
    IF pc = "returned"
    THEN IF "datetime" \in MainNames THEN "pause" ELSE "ended"
    ELSE "loop"

MainGoesOn ==
    /\ proc \in {"returned", "pause"}
    /\ proc' = MainLoop(proc)
    /\ UNCHANGED <<db, last, job_list, jobs, validated, tasks, hist>>

InitMain ==
    /\ db = EmptyDb
    /\ last = NoCall
    /\ job_list = <<>>
    /\ jobs = <<>>
    /\ validated = FALSE
    /\ proc = "loop"
    /\ tasks = <<>>
    /\ hist = NoHist

NextMain ==
    \/ MainBegins
    \/ \E k \in 1..Len(MainExchanges), state \in RequestStates : RequestEnds(1, k, state)
    \/ MainEnds
    \/ MainGoesOn

\* The program goes on while it can: a request ends, the loop takes its next step.
SpecMain == InitMain /\ [][NextMain]_vars /\ WF_vars(NextMain)

\* C38: after a round has returned the loop comes to its pause and after the
\* pause to another round (as long as rounds are left in the model), and a
\* round begins only at the head of the loop, when no round is under way.
C38_RoundFollowsRound ==
    /\ (proc = "returned") ~> (proc = "pause")
    /\ (proc = "pause") ~> (proc = "round" \/ hist.rounds = MaxRounds)
    /\ [][hist'.rounds # hist.rounds => (proc = "loop" /\ proc' = "round")]_vars

====
